---- MODULE Spec2Model ----
(***************************************************************************)
(* Model of the team reconciliation engine of airline-msteams-poc:         *)
(* TeamsUpdater (src/src/TeamsUpdater.ts, lines 55-407), the tracking      *)
(* store MongoDbAppDataStore and the trip repository MongoDbTripsApi.      *)
(*                                                                         *)
(* Time is counted in days (the windows of the updater are whole days and  *)
(* only compared, added and subtracted).  Strings are sequences of         *)
(* one-character strings, so that toLowerCase is computed and not assumed. *)
(***************************************************************************)
EXTENDS Integers, Sequences, FiniteSets, TLC

VARIABLES
    appContext,     \* teamsApi.isInAppContext()
    activeUpn,      \* TeamsUpdater.activeTeamOwnerUpn
    archivedUpn,    \* TeamsUpdater.archivedTeamOwnerUpn
    ownerIds,       \* TeamsUpdater.activeTeamOwnerId / archivedTeamOwnerId
    trips,          \* the Trips collection, by tripId
    teams,          \* the Teams collection (TeamData), by groupId
    groups,         \* the directory: the remote groups, by id
    nextGroup,      \* per trip: number of groups the directory has created for it
    run,            \* the updateTeamsAsync calls: position and trigger time
    arch,           \* per call and group: the archive item (async callback)
    upd,            \* per call and group: the update item
    crt,            \* per call and trip: the create item
    nFaults,        \* number of failed directory / store calls so far
    diff,           \* the membership diff of one group (pure function check)
    ct,             \* one TeamsApi.createTeamAsync call: position and locals
    tok,            \* a TeamsApi object: its token fields, the clock, its operations
    del,            \* the deleteAllTrackedTeamsAsync call: position and callbacks
    fnd             \* one findActiveTeamsCreatedBeforeTimeAsync call (pure function check)

vars == <<appContext, activeUpn, archivedUpn, ownerIds, trips, teams, groups,
          nextGroup, run, arch, upd, crt, nFaults, diff, ct, tok, del, fnd>>

----------------------------------------------------------------------------
(* Program constants *)

daysInAdvanceToCreateTrips == 7

daysInPastToMonitorTrips == 7

daysInPastToArchiveTrips == 14

archivedTag == "[ARCHIVED]"

----------------------------------------------------------------------------
(* Bounds of the model *)

\* failed directory / store calls per behaviour
MaxFaults == 1

\* groups the directory creates for one mail nickname (trip) per behaviour
MaxGroups == 2

\* length of the member and crew lists of the pure diff check
MaxList == 3

\* the clock of a TeamsApi object runs from 0 to MaxTime seconds
MaxTime == 150

\* number of tokens the identity provider issues
MaxTokens == 3

----------------------------------------------------------------------------
(* Strings *)

\* String.prototype.toLowerCase on one character
LowerChar(c) ==
    CASE c = "A" -> "a"
      [] c = "B" -> "b"
      [] c = "C" -> "c"
      [] c = "D" -> "d"
      [] c = "O" -> "o"
      [] c = "R" -> "r"
      [] OTHER -> c

\* String.prototype.toLowerCase
toLowerCase(s) == [i \in DOMAIN s |-> LowerChar(s[i])]

\* The user accounts of the directory: object id and principal name as the
\* directory stores it.  "o" is the active team owner, "r" the archive owner.
UserNames == {"a", "b", "c", "d", "o", "r"}

UserId(n) == <<"#", n>>

Users == {UserId(n) : n \in UserNames}

\* userPrincipalName of a directory user (stored with an upper-case letter)
UpnOfId ==
    [id \in Users |->
        CASE id[2] = "a" -> <<"A">>
          [] id[2] = "b" -> <<"B">>
          [] id[2] = "c" -> <<"C">>
          [] id[2] = "d" -> <<"D">>
          [] id[2] = "o" -> <<"O">>
          [] OTHER -> <<"R">>]

\* The member objects getMembersOfGroupAsync returns for a set of ids
UserObjects(ids) == {[id |-> i, userPrincipalName |-> UpnOfId[i]] : i \in ids}

----------------------------------------------------------------------------
(* TeamsUpdater.normalizeUpnCasing and the membership diff of               *)
(* updateExistingTeamsAsync, on lists (sequences) as in the code            *)

\* the names are left as they came
normalizeUpnCasing_AsIs(users) == users

\* users.forEach(user => { if (user.userPrincipalName) user.userPrincipalName = ...toLowerCase() })
normalizeUpnCasing(users) ==
    [i \in DOMAIN users |->
        IF users[i].userPrincipalName # <<>>
        THEN [users[i] EXCEPT !.userPrincipalName = toLowerCase(@)]
        ELSE users[i]]

\* crewMembers.filter(crewMember => !groupMembers.find(groupMember => same upn))
crewMembersToAdd(crewMembers, groupMembers) ==
    LET Missing(cm) ==
            ~ \E i \in DOMAIN groupMembers :
                groupMembers[i].userPrincipalName = cm.userPrincipalName
    IN  SelectSeq(crewMembers, Missing)

\* the exemption of the remove filter, line 273
KeepsMember_NoExemption(groupMember, ownerUpn) == FALSE

KeepsMember(groupMember, ownerUpn) ==
    groupMember.userPrincipalName = ownerUpn

\* groupMembers.filter(groupMember => !crewMembers.find(same upn) && groupMember.upn !== activeTeamOwnerUpn)
groupMembersToRemove(groupMembers, crewMembers, ownerUpn) ==
    LET Gone(gm) ==
            /\ ~ \E i \in DOMAIN crewMembers :
                    gm.userPrincipalName = crewMembers[i].userPrincipalName
            /\ ~ KeepsMember(gm, ownerUpn)
    IN  SelectSeq(groupMembers, Gone)


----------------------------------------------------------------------------
(* Data *)

TripIds == {"t1", "t2"}

\* The ids the directory gives to groups are opaque; the k-th group created
\* with mail nickname t (the trip id, line 166) is named <<t, k>>
GroupIds == TripIds \X (1 .. MaxGroups)

NoGroupId == <<"", 0>>

Runs == {1, 2}

\* trigger times offered by the trigger endpoint (the "date" parameter)
TriggerTimes == {3, 10, 17, 25}

Crew(names) == [i \in DOMAIN names |-> [userPrincipalName |-> names[i]]]

Trip(id, dep, names) ==
    [tripId |-> id, departureTime |-> dep, crewMembers |-> Crew(names)]

\* the values the operations system may give a trip
TripValues(id) ==
    IF id = "t1"
    THEN {Trip("t1", 10, <<<<"a">>, <<"B">>>>), Trip("t1", 1, <<<<"c">>, <<"D">>>>)}
    ELSE {Trip("t2", 11, <<<<"B">>>>)}

EmptyFn == [x \in {} |-> 0]

NoGroup == [state |-> "absent", displayName |-> <<>>, members |-> {}, owners |-> {}]

GroupExists(g) == groups[g].state \in {"group", "team"}

\* Date -> "YYYY-MM-DD": the day number is kept as the date word
getDisplayNameForTrip(trip) == <<"EK", ToString(trip.departureTime)>>

\* String.prototype.startsWith(archivedTag) on a name of words
\* a test that never finds the tag
startsWithArchivedTag_Never(displayName) == FALSE

startsWithArchivedTag(displayName) ==
    displayName # <<>> /\ displayName[1] = archivedTag

----------------------------------------------------------------------------
(* Outcome of a call to the directory, the store or the trip repository:   *)
(* it fails when the callee must refuse it, and may fail for any other     *)
(* reason (network, throttling) while the fault budget lasts.              *)

Succeeds(possible) == possible /\ UNCHANGED nFaults

Fails(possible) ==
    IF possible
    THEN nFaults < MaxFaults /\ nFaults' = nFaults + 1
    ELSE UNCHANGED nFaults

cfgVars == <<appContext, activeUpn, archivedUpn>>

----------------------------------------------------------------------------
(* The tracking store: MongoDbAppDataStore over the Teams collection *)

\* a write that replaces the collection by the document
addOrUpdateTeamData_ReplaceAll(coll, teamData) == {teamData}

\* updateOne({groupId}, teamData, {upsert: true}): the document is replaced
addOrUpdateTeamData(coll, teamData) ==
    {d \in coll : d.groupId # teamData.groupId} \cup {teamData}

\* remove({groupId})
deleteTeamData(coll, groupId) == {d \in coll : d.groupId # groupId}

\* the comparison of the creationTime filter
CreatedBefore(creationTime, endTime) == creationTime <= endTime

\* the query without its archivalTime condition
findActiveTeamsCreatedBeforeTime_AnyArchival(coll, endTime) ==
    {d \in coll : CreatedBefore(d.creationTime, endTime)}

\* find({creationTime: {$lte: endTime}, archivalTime: {$exists: false}})
findActiveTeamsCreatedBeforeTime(coll, endTime) ==
    {d \in coll : CreatedBefore(d.creationTime, endTime) /\ d.archivalTime = <<>>}

\* findOne({tripId}): the documents one of which is returned
getTeamDataByTrip(coll, tripId) == {d \in coll : d.tripId = tripId}

(* The trip repository: MongoDbTripsApi over the Trips collection *)

\* the comparison of the departureTime filter
DepartsInRange_Exclusive(departureTime, startTime, endTime) ==
    departureTime >= startTime /\ departureTime < endTime

DepartsInRange(departureTime, startTime, endTime) ==
    departureTime >= startTime /\ departureTime <= endTime

\* find({departureTime: {$gte: startTime, $lte: endTime}})
findTripsDepartingInRange(coll, startTime, endTime) ==
    {t \in coll : DepartsInRange(t.departureTime, startTime, endTime)}

\* findOne({tripId})
getTrip(coll, tripId) == {t \in coll : t.tripId = tripId}

\* updateOne({tripId}, trip, {upsert: true})
addOrUpdateTrip(coll, trip) == {t \in coll : t.tripId # trip.tripId} \cup {trip}

(* The directory: the user a principal name resolves to (names are         *)
(* compared without regard to case by the directory)                       *)
getUserByUpn(upn) == {u \in Users : toLowerCase(UpnOfId[u]) = toLowerCase(upn)}

----------------------------------------------------------------------------
(* The windows of the three phases *)

\* moment(triggerTime).subtract(daysInPastToArchiveTrips, "d")
maxDepartureTimeToArchive(triggerTime) == triggerTime - daysInPastToArchiveTrips

\* moment(triggerTime).subtract(daysInPastToMonitorTrips, "d")
\* a monitor window that reaches back beyond the archive cutoff
minDepartureTimeToUpdate_Wide(triggerTime) == triggerTime - 3 * daysInPastToMonitorTrips

minDepartureTimeToUpdate(triggerTime) == triggerTime - daysInPastToMonitorTrips

\* moment(triggerTime).add(daysInAdvanceToCreateTrips, "d")
maxDepartureTimeToCreate(triggerTime) == triggerTime + daysInAdvanceToCreateTrips

\* the comparison of the archive filter
DepartedBefore(departureTime, cutoff) == departureTime < cutoff

\* activeTeams.filter(teamData => teamData.tripSnapshot.departureTime < maxDepartureTimeToArchive)
teamsToArchive(coll, triggerTime) ==
    {d \in findActiveTeamsCreatedBeforeTime(coll, maxDepartureTimeToArchive(triggerTime)) :
        DepartedBefore(d.tripSnapshot.departureTime, maxDepartureTimeToArchive(triggerTime))}

\* the comparison of the update filter
DepartedAfter(departureTime, floor) == departureTime > floor

\* activeTeams.filter(teamData => teamData.tripSnapshot.departureTime > minDepartureTimeToUpdate)
teamsToUpdate(coll, triggerTime) ==
    {d \in findActiveTeamsCreatedBeforeTime(coll, triggerTime) :
        DepartedAfter(d.tripSnapshot.departureTime, minDepartureTimeToUpdate(triggerTime))}

\* the trips createTeamsAsync maps over
tripsToCreate(coll, triggerTime) ==
    findTripsDepartingInRange(coll, triggerTime, maxDepartureTimeToCreate(triggerTime))

----------------------------------------------------------------------------
(* State after construction *)

\* an id that is not set (undefined)
NoId == <<>>

\* a time that is not set: times in records are <<>> or <<t>>
NoTime == <<>>

NoOwnerIds == [active |-> NoId, archived |-> NoId]

IdleRun == [pc |-> "idle", triggerTime |-> 0]

NoFind == [coll |-> {}, endTime |-> 0, pc |-> "idle", documents |-> {}]

NoDiff == [members |-> <<>>, crew |-> <<>>, toAdd |-> <<>>, toRemove |-> <<>>,
           done |-> FALSE]

\* the constructor (lines 74-83): app.archivedTeamOwnerUpn is "R"; the
\* active owner is app.activeTeamOwnerUpn ("O") when that is configured and
\* the archive owner when config.get throws (line 81).  The API context of
\* teamsApi is configured apart from the owners.
InitConfig ==
    /\ appContext \in BOOLEAN
    /\ archivedUpn = toLowerCase(<<"R">>)
    /\ activeUpn \in {toLowerCase(<<"O">>), archivedUpn}

\* createTeamAsync before it is called: no group, attemptCount = 0, no
\* migrateTeamError (attempts holds the response status of every attempt)
NoTeamCall ==
    [pc |-> "idle", group |-> "absent", attemptCount |-> 0, attempts |-> <<>>,
     waits |-> 0, deletes |-> 0, error |-> "none"]

\* a TeamsApi object before a token is given to it or acquired by it
\* (accessToken 0: undefined); token and lifetime name the token response
\* the two fields were last written from
NoToken ==
    [now |-> 0, accessToken |-> 0, expirationTime |-> 0,
     token |-> [id |-> 0, expires_in |-> 0, at |-> 0], issued |-> 0,
     op |-> [o \in {1, 2} |-> "idle"]]

\* deleteAllTrackedTeamsAsync before it is called
NoTeardown == [pc |-> "idle", items |-> EmptyFn]

InitState ==
    /\ ct = NoTeamCall
    /\ tok = NoToken
    /\ del = NoTeardown
    /\ ownerIds = NoOwnerIds
    /\ teams = {}
    /\ groups = [g \in GroupIds |-> NoGroup]
    /\ nextGroup = [t \in TripIds |-> 0]
    /\ run = [r \in Runs |-> IdleRun]
    /\ arch = [r \in Runs |-> EmptyFn]
    /\ upd = [r \in Runs |-> EmptyFn]
    /\ crt = [r \in Runs |-> EmptyFn]
    /\ nFaults = 0

Init ==
    /\ InitConfig
    /\ InitState
    /\ trips = {Trip("t1", 10, <<<<"a">>, <<"B">>>>), Trip("t2", 11, <<<<"B">>>>)}
    /\ diff = NoDiff
    /\ fnd = NoFind

----------------------------------------------------------------------------
(* The async callbacks (items) of the three phases.  pc names the call the *)
(* callback awaits; rem, remO, own and adds hold the calls of a fan-out     *)
(* (Promise.all) that are in flight.                                       *)

NoTrip == Trip("", 0, <<>>)

NoTeamData ==
    [groupId |-> NoGroupId, tripId |-> "", tripSnapshot |-> NoTrip,
     creationTime |-> 0, archivalTime |-> NoTime]

NewItem(pc) ==
    [pc |-> pc, teamData |-> NoTeamData, trip |-> NoTrip, groupId |-> NoGroupId,
     members |-> {}, owners |-> {}, displayName |-> <<>>,
     rem |-> {}, remO |-> {}, own |-> {}, adds |-> <<>>]

\* a callback that returned (pc "done") or left through its catch (pc
\* "failed"): its locals are dead, the calls it left in flight go on
Ended(item, pc) ==
    [NewItem(pc) EXCEPT
        !.groupId = item.groupId,
        !.rem = item.rem,
        !.own = item.own,
        !.adds = IF \E i \in DOMAIN item.adds : item.adds[i].st \in {"getUser", "addMember"}
                 THEN item.adds ELSE <<>>]

----------------------------------------------------------------------------
(* updateTeamsAsync: the call *)

ItemOver(item) == item.pc \in {"done", "failed"}

\* calls of an item that are still in flight (also after the item was given up)
ItemInFlight(item) ==
    \/ ~ ItemOver(item)
    \/ item.rem # {} \/ item.remO # {} \/ item.own # {}
    \/ \E i \in DOMAIN item.adds : item.adds[i].st \in {"getUser", "addMember"}

PhaseInFlight(items) == \E k \in DOMAIN items : ItemInFlight(items[k])

CallInFlight(r) ==
    PhaseInFlight(arch[r]) \/ PhaseInFlight(upd[r]) \/ PhaseInFlight(crt[r])

CallOver(r) == run[r].pc \in {"idle", "resolved", "rejected"}

\* app.post("/api/updateTeams"): updateTeamsAsync(date) is called and runs to
\* its first await.  resolveTeamOwnersAsync tests each id before it sends the
\* lookup (lines 388, 392): the call awaits the lookup of the active owner,
\* or that of the archive owner, or, with both ids set, the query of
\* archiveTeamsAsync (line 299)
StartCall(r, triggerTime) ==
    /\ CallOver(r) /\ ~ CallInFlight(r)
    /\ run' = [run EXCEPT ![r] =
            [pc |-> IF ownerIds.active = NoId THEN "resolveActive"
                    ELSE IF ownerIds.archived = NoId THEN "resolveArchived"
                    ELSE "archiveQuery",
             triggerTime |-> triggerTime]]
    /\ arch' = [arch EXCEPT ![r] = EmptyFn]
    /\ upd' = [upd EXCEPT ![r] = EmptyFn]
    /\ crt' = [crt EXCEPT ![r] = EmptyFn]
    /\ UNCHANGED <<cfgVars, ownerIds, trips, teams, groups, nextGroup, nFaults, diff, ct, tok, del, fnd>>

GoTo(r, pc) == run' = [run EXCEPT ![r].pc = pc]

\* resolveTeamOwnersAsync, lines 389-392: the lookup of the active owner is
\* answered; the id is written whatever it is by then, and the archive owner
\* is looked up unless its id is set by now; or the lookup fails and the
\* call rejects
ResolveActiveOwner(r) ==
    /\ run[r].pc = "resolveActive"
    /\ \/ /\ \E u \in getUserByUpn(activeUpn) :
                ownerIds' = [ownerIds EXCEPT !.active = toLowerCase(u)]
          /\ Succeeds(TRUE)
          /\ GoTo(r, IF ownerIds.archived = NoId
                     THEN "resolveArchived" ELSE "archiveQuery")
       \/ /\ Fails(TRUE)
          /\ GoTo(r, "rejected")
          /\ UNCHANGED ownerIds
    /\ UNCHANGED <<cfgVars, trips, teams, groups, nextGroup, arch, upd, crt, diff, ct, tok, del, fnd>>

\* resolveTeamOwnersAsync, lines 393-394: the lookup of the archive owner is
\* answered and the id is written, or the lookup fails and the call rejects
ResolveArchivedOwner(r) ==
    /\ run[r].pc = "resolveArchived"
    /\ \/ /\ \E u \in getUserByUpn(archivedUpn) :
                ownerIds' = [ownerIds EXCEPT !.archived = toLowerCase(u)]
          /\ Succeeds(TRUE)
          /\ GoTo(r, "archiveQuery")
       \/ /\ Fails(TRUE)
          /\ GoTo(r, "rejected")
          /\ UNCHANGED ownerIds
    /\ UNCHANGED <<cfgVars, trips, teams, groups, nextGroup, arch, upd, crt, diff, ct, tok, del, fnd>>

----------------------------------------------------------------------------
(* Phase 1: archiveTeamsAsync and archiveTeamAsync *)

\* archiveTeamsAsync up to the map over teamsToArchive: every callback runs
\* to its first await, getMembersOfGroupAsync
ArchiveQuery(r) ==
    /\ run[r].pc = "archiveQuery"
    /\ \/ /\ Succeeds(TRUE)
          /\ GoTo(r, "archive")
          /\ arch' = [arch EXCEPT ![r] =
                [g \in {d.groupId : d \in teamsToArchive(teams, run[r].triggerTime)} |->
                    [NewItem("getMembers") EXCEPT
                        !.groupId = g,
                        !.teamData = CHOOSE d \in teamsToArchive(teams, run[r].triggerTime) :
                                        d.groupId = g]]]
       \/ /\ Fails(TRUE)
          /\ GoTo(r, "rejected")
          /\ UNCHANGED arch
    /\ UNCHANGED <<cfgVars, ownerIds, trips, teams, groups, nextGroup, upd, crt, diff, ct, tok, del, fnd>>

ArchItem(r, g, pc) == g \in DOMAIN arch[r] /\ arch[r][g].pc = pc

SetArch(r, g, item) == arch' = [arch EXCEPT ![r][g] = item]

IsArchiveOwner(id) == toLowerCase(id) = ownerIds.archived

\* the owner removals are issued once the rename is over (lines 371-380)
ArchAfterRename(item) ==
    LET remO == {o \in item.owners : ~ IsArchiveOwner(o)}
    IN  IF remO # {} THEN [item EXCEPT !.pc = "removeOwners", !.remO = remO]
        ELSE [item EXCEPT !.pc = "save"]

\* the member removals and the owner removals are issued together
ArchAfterAddOwner_OwnersToo(item) ==
    ArchAfterRename([item EXCEPT !.rem = {m \in item.members : ~ IsArchiveOwner(m)}])

\* the member removals are issued (lines 348-357)
ArchAfterAddOwner(item) ==
    LET rem == {m \in item.members : ~ IsArchiveOwner(m)}
    IN  IF rem # {} THEN [item EXCEPT !.pc = "removeMembers", !.rem = rem]
        ELSE [item EXCEPT !.pc = "getGroup"]

\* line 342
ArchAfterAddMember(item) ==
    IF ~ \E o \in item.owners : IsArchiveOwner(o)
    THEN [item EXCEPT !.pc = "addOwner"]
    ELSE ArchAfterAddOwner(item)

\* a procedure that removes without adding the archive owner first
ArchAfterGetOwners_RemoveFirst(item) == ArchAfterAddOwner(item)

\* line 339
ArchAfterGetOwners(item) ==
    IF ~ \E m \in item.members : IsArchiveOwner(m)
    THEN [item EXCEPT !.pc = "addMember"]
    ELSE ArchAfterAddMember(item)

ArchFailed(r, g) == SetArch(r, g, Ended(arch[r][g], "failed"))

othersArch == <<cfgVars, ownerIds, trips, nextGroup, run, upd, crt, diff, ct, tok, del, fnd>>

\* line 333: getMembersOfGroupAsync returns
ArchGetMembers(r, g) ==
    /\ ArchItem(r, g, "getMembers")
    /\ \/ /\ Succeeds(GroupExists(g))
          /\ SetArch(r, g, [arch[r][g] EXCEPT !.pc = "getOwners",
                                              !.members = groups[g].members])
       \/ Fails(GroupExists(g)) /\ ArchFailed(r, g)
    /\ UNCHANGED <<othersArch, teams, groups>>

\* line 334: getOwnersOfGroupAsync returns
ArchGetOwners(r, g) ==
    /\ ArchItem(r, g, "getOwners")
    /\ \/ /\ Succeeds(GroupExists(g))
          /\ SetArch(r, g, ArchAfterGetOwners([arch[r][g] EXCEPT !.owners = groups[g].owners]))
       \/ Fails(GroupExists(g)) /\ ArchFailed(r, g)
    /\ UNCHANGED <<othersArch, teams, groups>>

\* line 340: addMemberToGroupAsync(groupId, archivedTeamOwnerId) returns
ArchAddMember(r, g) ==
    /\ ArchItem(r, g, "addMember")
    /\ LET ok == GroupExists(g) /\ ownerIds.archived \notin groups[g].members
       IN  \/ /\ Succeeds(ok)
              /\ groups' = [groups EXCEPT ![g].members = @ \cup {ownerIds.archived}]
              /\ SetArch(r, g, ArchAfterAddMember(arch[r][g]))
           \/ Fails(ok) /\ ArchFailed(r, g) /\ UNCHANGED groups
    /\ UNCHANGED <<othersArch, teams>>

\* line 343: addOwnerToGroupAsync(groupId, archivedTeamOwnerId) returns
ArchAddOwner(r, g) ==
    /\ ArchItem(r, g, "addOwner")
    /\ LET ok == GroupExists(g) /\ ownerIds.archived \notin groups[g].owners
       IN  \/ /\ Succeeds(ok)
              /\ groups' = [groups EXCEPT ![g].owners = @ \cup {ownerIds.archived}]
              /\ SetArch(r, g, ArchAfterAddOwner(arch[r][g]))
           \/ Fails(ok) /\ ArchFailed(r, g) /\ UNCHANGED groups
    /\ UNCHANGED <<othersArch, teams>>

\* line 352: one removeMemberFromGroupAsync returns; its error is caught
\* (line 353); after the last one getGroupAsync is called (line 361)
ArchRemoveMember(r, g, m) ==
    /\ ArchItem(r, g, "removeMembers")
    /\ m \in arch[r][g].rem
    /\ LET ok == GroupExists(g) /\ m \in groups[g].members
       IN  \/ Succeeds(ok) /\ groups' = [groups EXCEPT ![g].members = @ \ {m}]
           \/ Fails(ok) /\ UNCHANGED groups
    /\ SetArch(r, g, [arch[r][g] EXCEPT
            !.rem = @ \ {m},
            !.pc = IF arch[r][g].rem = {m} THEN "getGroup" ELSE @])
    /\ UNCHANGED <<othersArch, teams>>

\* line 361: getGroupAsync returns
ArchGetGroup(r, g) ==
    /\ ArchItem(r, g, "getGroup")
    /\ \/ /\ Succeeds(GroupExists(g))
          /\ SetArch(r, g,
                IF ~ startsWithArchivedTag(groups[g].displayName)
                THEN [arch[r][g] EXCEPT !.pc = "updateGroup",
                                        !.displayName = groups[g].displayName]
                ELSE ArchAfterRename([arch[r][g] EXCEPT
                                        !.displayName = groups[g].displayName]))
       \/ Fails(GroupExists(g)) /\ ArchFailed(r, g)
    /\ UNCHANGED <<othersArch, teams, groups>>

\* line 363: updateGroupAsync returns; the new name is the tag and the name
\* getGroupAsync returned
ArchUpdateGroup(r, g) ==
    /\ ArchItem(r, g, "updateGroup")
    /\ \/ /\ Succeeds(GroupExists(g))
          /\ groups' = [groups EXCEPT ![g].displayName =
                            <<archivedTag>> \o arch[r][g].displayName]
          /\ SetArch(r, g, ArchAfterRename(arch[r][g]))
       \/ Fails(GroupExists(g)) /\ ArchFailed(r, g) /\ UNCHANGED groups
    /\ UNCHANGED <<othersArch, teams>>

\* line 375: one removeOwnerFromGroupAsync returns; its error is caught
ArchRemoveOwner(r, g, o) ==
    /\ ArchItem(r, g, "removeOwners")
    /\ o \in arch[r][g].remO
    /\ LET ok == GroupExists(g) /\ o \in groups[g].owners
       IN  \/ Succeeds(ok) /\ groups' = [groups EXCEPT ![g].owners = @ \ {o}]
           \/ Fails(ok) /\ UNCHANGED groups
    /\ SetArch(r, g, [arch[r][g] EXCEPT
            !.remO = @ \ {o},
            !.pc = IF arch[r][g].remO = {o} THEN "save" ELSE @])
    /\ UNCHANGED <<othersArch, teams>>

\* lines 314-315: teamData.archivalTime = triggerTime; addOrUpdateTeamDataAsync
ArchSave(r, g) ==
    /\ ArchItem(r, g, "save")
    /\ LET teamData == [arch[r][g].teamData EXCEPT !.archivalTime = <<run[r].triggerTime>>]
       IN  \/ /\ Succeeds(TRUE)
              /\ teams' = addOrUpdateTeamData(teams, teamData)
              /\ SetArch(r, g, Ended(arch[r][g], "done"))
           \/ /\ Fails(TRUE)
              /\ UNCHANGED teams
              /\ ArchFailed(r, g)
    /\ UNCHANGED <<othersArch, groups>>

\* Promise.all over callbacks that let their errors through: it never
\* resolves once one of them has failed
PhaseAwaited_AllDone(items) == \A k \in DOMAIN items : items[k].pc = "done"

\* await Promise.all(...) over the callbacks of a phase (lines 323, 292, 152)
PhaseAwaited(items) == \A k \in DOMAIN items : ItemOver(items[k])

----------------------------------------------------------------------------
(* Phase 2: updateExistingTeamsAsync *)

RECURSIVE SeqOfSet(_)
\* the array a query returns for a set of objects
SeqOfSet(S) ==
    IF S = {} THEN <<>>
    ELSE LET x == CHOOSE y \in S : TRUE IN <<x>> \o SeqOfSet(S \ {x})

\* getMembersOfGroupAsync and normalizeUpnCasing (lines 255-256)
groupMembersOf(ids) == normalizeUpnCasing(SeqOfSet(UserObjects(ids)))

\* updateExistingTeamsAsync up to the map over teamsToUpdate: every callback
\* runs to its first await, getTripAsync
UpdateQuery(r) ==
    /\ run[r].pc = "archive"
    /\ PhaseAwaited(arch[r])
    /\ \/ /\ Succeeds(TRUE)
          /\ GoTo(r, "update")
          /\ upd' = [upd EXCEPT ![r] =
                [g \in {d.groupId : d \in teamsToUpdate(teams, run[r].triggerTime)} |->
                    [NewItem("getTrip") EXCEPT
                        !.groupId = g,
                        !.teamData = CHOOSE d \in teamsToUpdate(teams, run[r].triggerTime) :
                                        d.groupId = g]]]
       \/ /\ Fails(TRUE)
          /\ GoTo(r, "rejected")
          /\ UNCHANGED upd
    /\ UNCHANGED <<cfgVars, ownerIds, trips, teams, groups, nextGroup, arch, crt, diff, ct, tok, del, fnd>>

UpdItem(r, g) == g \in DOMAIN upd[r]

SetUpd(r, g, item) == upd' = [upd EXCEPT ![r][g] = item]

othersUpd == <<cfgVars, ownerIds, trips, nextGroup, run, arch, crt, diff, ct, tok, del, fnd>>

\* the calls a list of crew members to add starts: getUserByUpnAsync each
AddsOf(toAdd) ==
    [i \in DOMAIN toAdd |->
        [upn |-> toAdd[i].userPrincipalName, st |-> "getUser", id |-> NoId]]

AddsOver(adds) == \A i \in DOMAIN adds : adds[i].st = "done"

\* lines 271-280: the removals are issued
UpdAfterAdds(item) ==
    LET toRemove == groupMembersToRemove(groupMembersOf(item.members),
                                         item.trip.crewMembers, activeUpn)
    IN  IF Len(toRemove) > 0
        THEN [item EXCEPT !.pc = "removing", !.rem = {toRemove[i].id : i \in DOMAIN toRemove}]
        ELSE [item EXCEPT !.pc = "save"]

\* lines 259-268: the additions are issued
UpdAfterGetMembers(item) ==
    LET toAdd == crewMembersToAdd(item.trip.crewMembers, groupMembersOf(item.members))
    IN  IF Len(toAdd) > 0
        THEN [item EXCEPT !.pc = "adding", !.adds = AddsOf(toAdd)]
        ELSE UpdAfterAdds(item)

\* line 250: getTripAsync returns; a trip that is not found is null and
\* trip.crewMembers throws
UpdGetTrip(r, g) ==
    /\ UpdItem(r, g) /\ upd[r][g].pc = "getTrip"
    /\ LET found == getTrip(trips, upd[r][g].teamData.tripId)
       IN  \/ /\ Succeeds(found # {})
              /\ \E trip \in found :
                    SetUpd(r, g, [upd[r][g] EXCEPT
                        !.pc = "getMembers",
                        !.trip = [trip EXCEPT !.crewMembers = normalizeUpnCasing(@)]])
           \/ /\ Fails(found # {})
              /\ SetUpd(r, g, Ended(upd[r][g], "failed"))
    /\ UNCHANGED <<othersUpd, teams, groups>>

\* line 255: getMembersOfGroupAsync returns
UpdGetMembers(r, g) ==
    /\ UpdItem(r, g) /\ upd[r][g].pc = "getMembers"
    /\ \/ /\ Succeeds(GroupExists(g))
          /\ SetUpd(r, g, UpdAfterGetMembers([upd[r][g] EXCEPT !.members = groups[g].members]))
       \/ /\ Fails(GroupExists(g))
          /\ SetUpd(r, g, Ended(upd[r][g], "failed"))
    /\ UNCHANGED <<othersUpd, teams, groups>>

\* Promise.all(memberAddPromises) rejects with the first rejection: the
\* callback leaves for its catch (line 288) while the other calls go on
UpdAddFailed(item, i) ==
    LET lost == [item EXCEPT !.adds[i].st = "failed"]
    IN  IF item.pc = "adding" THEN Ended(lost, "failed") ELSE Ended(lost, item.pc)

\* line 263: one getUserByUpnAsync returns, addMemberToGroupAsync is called
UpdGetUser(r, g, i) ==
    /\ UpdItem(r, g)
    /\ i \in DOMAIN upd[r][g].adds /\ upd[r][g].adds[i].st = "getUser"
    /\ LET found == getUserByUpn(upd[r][g].adds[i].upn)
       IN  \/ /\ Succeeds(found # {})
              /\ \E u \in found :
                    SetUpd(r, g, [upd[r][g] EXCEPT !.adds[i].st = "addMember",
                                                  !.adds[i].id = u])
           \/ /\ Fails(found # {})
              /\ SetUpd(r, g, UpdAddFailed(upd[r][g], i))
    /\ UNCHANGED <<othersUpd, teams, groups>>

\* line 264: one addMemberToGroupAsync returns; after the last one of a
\* callback that still waits, the removals are computed
UpdAddMember(r, g, i) ==
    /\ UpdItem(r, g)
    /\ i \in DOMAIN upd[r][g].adds /\ upd[r][g].adds[i].st = "addMember"
    /\ LET u == upd[r][g].adds[i].id
           ok == GroupExists(g) /\ u \notin groups[g].members
           added == [upd[r][g] EXCEPT !.adds[i].st = "done"]
       IN  \/ /\ Succeeds(ok)
              /\ groups' = [groups EXCEPT ![g].members = @ \cup {u}]
              /\ SetUpd(r, g, IF added.pc = "adding"
                              THEN (IF AddsOver(added.adds) THEN UpdAfterAdds(added) ELSE added)
                              ELSE Ended(added, added.pc))
           \/ /\ Fails(ok)
              /\ UNCHANGED groups
              /\ SetUpd(r, g, UpdAddFailed(upd[r][g], i))
    /\ UNCHANGED <<othersUpd, teams>>

\* removals whose errors are swallowed: the callback goes on to the save
UpdRemoveMember_Swallow(r, g, m) ==
    /\ UpdItem(r, g)
    /\ m \in upd[r][g].rem
    /\ LET ok == GroupExists(g) /\ m \in groups[g].members
           left == upd[r][g].rem \ {m}
       IN  /\ \/ Succeeds(ok) /\ groups' = [groups EXCEPT ![g].members = @ \ {m}]
              \/ Fails(ok) /\ UNCHANGED groups
           /\ SetUpd(r, g, [upd[r][g] EXCEPT
                    !.rem = left,
                    !.pc = IF upd[r][g].pc = "removing" /\ left = {} THEN "save" ELSE @])
    /\ UNCHANGED <<othersUpd, teams>>

\* line 276: one removeMemberFromGroupAsync returns; Promise.all (line 278)
\* rejects with the first rejection
UpdRemoveMember(r, g, m) ==
    /\ UpdItem(r, g)
    /\ m \in upd[r][g].rem
    /\ LET ok == GroupExists(g) /\ m \in groups[g].members
           left == upd[r][g].rem \ {m}
       IN  \/ /\ Succeeds(ok)
              /\ groups' = [groups EXCEPT ![g].members = @ \ {m}]
              /\ SetUpd(r, g, [upd[r][g] EXCEPT
                    !.rem = left,
                    !.pc = IF upd[r][g].pc = "removing" /\ left = {} THEN "save" ELSE @])
           \/ /\ Fails(ok)
              /\ UNCHANGED groups
              /\ SetUpd(r, g, Ended([upd[r][g] EXCEPT !.rem = left],
                                     IF upd[r][g].pc = "removing" THEN "failed" ELSE upd[r][g].pc))
    /\ UNCHANGED <<othersUpd, teams>>

\* a write-back that stamps the record with the trigger time of the call
UpdSave_Restamp(r, g) ==
    /\ UpdItem(r, g) /\ upd[r][g].pc = "save"
    /\ LET teamData == [upd[r][g].teamData EXCEPT !.tripSnapshot = upd[r][g].trip,
                                                  !.creationTime = run[r].triggerTime]
       IN  \/ /\ Succeeds(TRUE)
              /\ teams' = addOrUpdateTeamData(teams, teamData)
              /\ SetUpd(r, g, Ended(upd[r][g], "done"))
           \/ /\ Fails(TRUE)
              /\ UNCHANGED teams
              /\ SetUpd(r, g, Ended(upd[r][g], "failed"))
    /\ UNCHANGED <<othersUpd, groups>>

\* lines 283-284: teamData.tripSnapshot = trip; addOrUpdateTeamDataAsync
UpdSave(r, g) ==
    /\ UpdItem(r, g) /\ upd[r][g].pc = "save"
    /\ LET teamData == [upd[r][g].teamData EXCEPT !.tripSnapshot = upd[r][g].trip]
       IN  \/ /\ Succeeds(TRUE)
              /\ teams' = addOrUpdateTeamData(teams, teamData)
              /\ SetUpd(r, g, Ended(upd[r][g], "done"))
           \/ /\ Fails(TRUE)
              /\ UNCHANGED teams
              /\ SetUpd(r, g, Ended(upd[r][g], "failed"))
    /\ UNCHANGED <<othersUpd, groups>>

----------------------------------------------------------------------------
(* Phase 3: createTeamsAsync and createTeamForTripAsync *)

\* createTeamsAsync up to the map over the trips: every callback runs to its
\* first await, getTeamDataByTripAsync
CreateQuery(r) ==
    /\ run[r].pc = "update"
    /\ PhaseAwaited(upd[r])
    /\ \/ /\ Succeeds(TRUE)
          /\ GoTo(r, "create")
          /\ crt' = [crt EXCEPT ![r] =
                [t \in {x.tripId : x \in tripsToCreate(trips, run[r].triggerTime)} |->
                    [NewItem("lookup") EXCEPT
                        !.trip = CHOOSE x \in tripsToCreate(trips, run[r].triggerTime) :
                                    x.tripId = t]]]
       \/ /\ Fails(TRUE)
          /\ GoTo(r, "rejected")
          /\ UNCHANGED crt
    /\ UNCHANGED <<cfgVars, ownerIds, trips, teams, groups, nextGroup, arch, upd, diff, ct, tok, del, fnd>>

CrtItem(r, t, pc) == t \in DOMAIN crt[r] /\ crt[r][t].pc = pc

SetCrt(r, t, item) == crt' = [crt EXCEPT ![r][t] = item]

CrtFailed(r, t) == SetCrt(r, t, Ended(crt[r][t], "failed"))

othersCrt == <<cfgVars, ownerIds, trips, run, arch, upd, diff, ct, tok, del, fnd>>

\* the guard of line 134 on what getTeamDataByTripAsync returned
NoTeamYet_Always(found) == TRUE

NoTeamYet(found) == found = {}

\* lines 133-134: getTeamDataByTripAsync returns; createGroupAsync is called
\* when there is no team data
CrtLookup(r, t) ==
    /\ CrtItem(r, t, "lookup")
    /\ \/ /\ Succeeds(TRUE)
          /\ SetCrt(r, t, IF NoTeamYet(getTeamDataByTrip(teams, t))
                          THEN [crt[r][t] EXCEPT !.pc = "createGroup"]
                          ELSE Ended(crt[r][t], "done"))
       \/ Fails(TRUE) /\ CrtFailed(r, t)
    /\ UNCHANGED <<othersCrt, teams, groups, nextGroup>>

\* the account the user-context API acts for; the directory makes it the
\* owner of the groups it creates
SignedInUser == UserId("o")

\* line 166: createGroupAsync returns; in app context the owner is then added
\* as owner and as member, both calls at once (lines 170-175)
CrtCreateGroup(r, t) ==
    /\ CrtItem(r, t, "createGroup")
    /\ \/ /\ Succeeds(nextGroup[t] < MaxGroups)
          /\ nextGroup' = [nextGroup EXCEPT ![t] = @ + 1]
          /\ groups' = [groups EXCEPT ![<<t, nextGroup[t] + 1>>] =
                [state |-> "group",
                 displayName |-> getDisplayNameForTrip(crt[r][t].trip),
                 members |-> {},
                 owners |-> IF appContext THEN {} ELSE {SignedInUser}]]
          /\ SetCrt(r, t, [crt[r][t] EXCEPT
                !.groupId = <<t, nextGroup[t] + 1>>,
                !.pc = IF appContext THEN "addOwner" ELSE "createTeam",
                !.own = IF appContext THEN {"owner", "member"} ELSE {}])
       \/ /\ Fails(nextGroup[t] < MaxGroups)
          /\ CrtFailed(r, t)
          /\ UNCHANGED <<groups, nextGroup>>
    /\ UNCHANGED <<othersCrt, teams>>

\* lines 172-173: addOwnerToGroupAsync or addMemberToGroupAsync of the active
\* owner returns; Promise.all rejects with the first rejection and the catch
\* of line 179 deletes the group
CrtAddOwner(r, t, k) ==
    /\ t \in DOMAIN crt[r]
    /\ k \in crt[r][t].own
    /\ LET g == crt[r][t].groupId
           left == crt[r][t].own \ {k}
           has == IF k = "owner" THEN groups[g].owners ELSE groups[g].members
           ok == GroupExists(g) /\ ownerIds.active \notin has
       IN  \/ /\ Succeeds(ok)
              /\ groups' = IF k = "owner"
                            THEN [groups EXCEPT ![g].owners = @ \cup {ownerIds.active}]
                            ELSE [groups EXCEPT ![g].members = @ \cup {ownerIds.active}]
              /\ SetCrt(r, t, [crt[r][t] EXCEPT
                    !.own = left,
                    !.pc = IF crt[r][t].pc = "addOwner" /\ left = {} THEN "createTeam" ELSE @])
           \/ /\ Fails(ok)
              /\ UNCHANGED groups
              /\ SetCrt(r, t, [crt[r][t] EXCEPT
                    !.own = left,
                    !.pc = IF crt[r][t].pc = "addOwner" THEN "cleanup" ELSE @])
    /\ UNCHANGED <<othersCrt, teams, nextGroup>>

\* a conversion whose error is swallowed: the callback goes on with the group
CrtCreateTeam_Swallow(r, t) ==
    /\ CrtItem(r, t, "createTeam")
    /\ LET g == crt[r][t].groupId
       IN  \/ /\ Succeeds(GroupExists(g))
              /\ groups' = [groups EXCEPT ![g].state = "team"]
           \/ /\ Fails(GroupExists(g))
              /\ UNCHANGED groups
    /\ SetCrt(r, t, [crt[r][t] EXCEPT !.pc = "settle"])
    /\ UNCHANGED <<othersCrt, teams, nextGroup>>

\* a creation that resolves the crew members as soon as the team exists
CrtCreateTeam_NoDelay(r, t) ==
    /\ CrtItem(r, t, "createTeam")
    /\ LET g == crt[r][t].groupId
           crew == normalizeUpnCasing(crt[r][t].trip.crewMembers)
       IN  \/ /\ Succeeds(GroupExists(g))
              /\ groups' = [groups EXCEPT ![g].state = "team"]
              /\ SetCrt(r, t, [crt[r][t] EXCEPT
                    !.trip.crewMembers = crew,
                    !.adds = AddsOf(crew),
                    !.pc = IF Len(crew) > 0 THEN "adding" ELSE "save"])
           \/ /\ Fails(GroupExists(g))
              /\ UNCHANGED groups
              /\ SetCrt(r, t, [crt[r][t] EXCEPT !.pc = "cleanup"])
    /\ UNCHANGED <<othersCrt, teams, nextGroup>>

\* line 178: createTeamFromGroupAsync returns
CrtCreateTeam(r, t) ==
    /\ CrtItem(r, t, "createTeam")
    /\ LET g == crt[r][t].groupId
       IN  \/ /\ Succeeds(GroupExists(g))
              /\ groups' = [groups EXCEPT ![g].state = "team"]
              /\ SetCrt(r, t, [crt[r][t] EXCEPT !.pc = "settle"])
           \/ /\ Fails(GroupExists(g))
              /\ UNCHANGED groups
              /\ SetCrt(r, t, [crt[r][t] EXCEPT !.pc = "cleanup"])
    /\ UNCHANGED <<othersCrt, teams, nextGroup>>

\* lines 183-192: deleteGroupAsync returns, its error is logged; the error of
\* the creation is thrown and caught at line 148
CrtCleanup(r, t) ==
    /\ CrtItem(r, t, "cleanup")
    /\ LET g == crt[r][t].groupId
       IN  \/ /\ Succeeds(GroupExists(g))
              /\ groups' = [groups EXCEPT ![g] = [NoGroup EXCEPT !.state = "deleted"]]
           \/ /\ Fails(GroupExists(g))
              /\ UNCHANGED groups
    /\ CrtFailed(r, t)
    /\ UNCHANGED <<othersCrt, teams, nextGroup>>

AddsSettled(adds) == \A i \in DOMAIN adds : adds[i].st \in {"done", "failed"}

\* lines 198-212: the delay is over; the crew list is normalized and
\* getUserByUpnAsync is called for every crew member
CrtSettle(r, t) ==
    /\ CrtItem(r, t, "settle")
    /\ LET crew == normalizeUpnCasing(crt[r][t].trip.crewMembers)
       IN  SetCrt(r, t, [crt[r][t] EXCEPT
                !.trip.crewMembers = crew,
                !.adds = AddsOf(crew),
                !.pc = IF Len(crew) > 0 THEN "adding" ELSE "save"])
    /\ UNCHANGED <<othersCrt, teams, groups, nextGroup, nFaults>>

\* line 207: one getUserByUpnAsync returns; its error is caught (line 209)
CrtGetUser(r, t, i) ==
    /\ CrtItem(r, t, "adding")
    /\ i \in DOMAIN crt[r][t].adds /\ crt[r][t].adds[i].st = "getUser"
    /\ LET found == getUserByUpn(crt[r][t].adds[i].upn)
           lost == [crt[r][t] EXCEPT !.adds[i].st = "failed"]
       IN  \/ /\ Succeeds(found # {})
              /\ \E u \in found :
                    SetCrt(r, t, [crt[r][t] EXCEPT !.adds[i].st = "addMember",
                                                  !.adds[i].id = u])
           \/ /\ Fails(found # {})
              /\ SetCrt(r, t, [lost EXCEPT
                    !.pc = IF AddsSettled(lost.adds) THEN "save" ELSE @])
    /\ UNCHANGED <<othersCrt, teams, groups, nextGroup>>

\* line 208: one addMemberToGroupAsync returns; its error is caught
CrtAddMember(r, t, i) ==
    /\ CrtItem(r, t, "adding")
    /\ i \in DOMAIN crt[r][t].adds /\ crt[r][t].adds[i].st = "addMember"
    /\ LET g == crt[r][t].groupId
           u == crt[r][t].adds[i].id
           ok == GroupExists(g) /\ u \notin groups[g].members
           added == [crt[r][t] EXCEPT !.adds[i].st = "done"]
           lost == [crt[r][t] EXCEPT !.adds[i].st = "failed"]
       IN  \/ /\ Succeeds(ok)
              /\ groups' = [groups EXCEPT ![g].members = @ \cup {u}]
              /\ SetCrt(r, t, [added EXCEPT
                    !.pc = IF AddsSettled(added.adds) THEN "save" ELSE @])
           \/ /\ Fails(ok)
              /\ UNCHANGED groups
              /\ SetCrt(r, t, [lost EXCEPT
                    !.pc = IF AddsSettled(lost.adds) THEN "save" ELSE @])
    /\ UNCHANGED <<othersCrt, teams, nextGroup>>

\* the record stamped with the departure of the trip
newTeamData_DepartureStamp(groupId, trip, triggerTime) ==
    [groupId |-> groupId, tripId |-> trip.tripId, tripSnapshot |-> trip,
     creationTime |-> trip.departureTime, archivalTime |-> NoTime]

\* lines 138-143
newTeamData(groupId, trip, triggerTime) ==
    [groupId |-> groupId, tripId |-> trip.tripId, tripSnapshot |-> trip,
     creationTime |-> triggerTime, archivalTime |-> NoTime]

\* line 144: addOrUpdateTeamDataAsync(newTeamData) returns
CrtSave(r, t) ==
    /\ CrtItem(r, t, "save")
    /\ LET teamData == newTeamData(crt[r][t].groupId, crt[r][t].trip, run[r].triggerTime)
       IN  \/ /\ Succeeds(TRUE)
              /\ teams' = addOrUpdateTeamData(teams, teamData)
              /\ SetCrt(r, t, Ended(crt[r][t], "done"))
           \/ /\ Fails(TRUE)
              /\ UNCHANGED teams
              /\ CrtFailed(r, t)
    /\ UNCHANGED <<othersCrt, groups, nextGroup>>

\* the callbacks that outlive the call: those with calls still in flight
Pending(items) == [k \in {x \in DOMAIN items : ItemInFlight(items[x])} |-> items[k]]

\* Promise.all over create callbacks without a catch of their own: the call
\* rejects when one of them failed
Finish_Rethrow(r) ==
    /\ run[r].pc = "create"
    /\ PhaseAwaited(crt[r])
    /\ GoTo(r, IF \E t \in DOMAIN crt[r] : crt[r][t].pc = "failed"
                THEN "rejected" ELSE "resolved")
    /\ arch' = [arch EXCEPT ![r] = Pending(@)]
    /\ upd' = [upd EXCEPT ![r] = Pending(@)]
    /\ crt' = [crt EXCEPT ![r] = Pending(@)]
    /\ UNCHANGED <<cfgVars, ownerIds, trips, teams, groups, nextGroup,
                   nFaults, diff, ct, tok, del, fnd>>

\* line 152 and the return of updateTeamsAsync; the callbacks that are over
\* are dropped with the call
Finish(r) ==
    /\ run[r].pc = "create"
    /\ PhaseAwaited(crt[r])
    /\ GoTo(r, "resolved")
    /\ arch' = [arch EXCEPT ![r] = Pending(@)]
    /\ upd' = [upd EXCEPT ![r] = Pending(@)]
    /\ crt' = [crt EXCEPT ![r] = Pending(@)]
    /\ UNCHANGED <<cfgVars, ownerIds, trips, teams, groups, nextGroup,
                   nFaults, diff, ct, tok, del, fnd>>

----------------------------------------------------------------------------
(* The operations system writes the Trips collection (ITripsTest), at any   *)
(* time, also while a call of updateTeamsAsync runs                        *)

\* addOrUpdateTripAsync (lines 69-74) is called with a trip of this id that
\* the collection does not hold as it is: the trip is added or replaced
TripChanged(id) ==
    /\ \E trip \in TripValues(id) \ trips : trips' = addOrUpdateTrip(trips, trip)
    /\ UNCHANGED <<cfgVars, ownerIds, teams, groups, nextGroup, run, arch, upd, crt,
                   nFaults, diff, ct, tok, del, fnd>>

\* deleteAllTripsAsync (lines 76-80): deleteMany({}) empties the collection
DeleteAllTrips ==
    /\ trips # {}
    /\ trips' = {}
    /\ UNCHANGED <<cfgVars, ownerIds, teams, groups, nextGroup, run, arch, upd, crt,
                   nFaults, diff, ct, tok, del, fnd>>

----------------------------------------------------------------------------
(* Specifications *)

ArchiveStep(r) ==
    \E g \in GroupIds :
        \/ ArchGetMembers(r, g)
        \/ ArchGetOwners(r, g)
        \/ ArchAddMember(r, g)
        \/ ArchAddOwner(r, g)
        \/ \E m \in Users : ArchRemoveMember(r, g, m)
        \/ ArchGetGroup(r, g)
        \/ ArchUpdateGroup(r, g)
        \/ \E o \in Users : ArchRemoveOwner(r, g, o)
        \/ ArchSave(r, g)

UpdateStep(r) ==
    \E g \in GroupIds :
        \/ UpdGetTrip(r, g)
        \/ UpdGetMembers(r, g)
        \/ \E i \in 1 .. MaxList : UpdGetUser(r, g, i)
        \/ \E i \in 1 .. MaxList : UpdAddMember(r, g, i)
        \/ \E m \in Users : UpdRemoveMember(r, g, m)
        \/ UpdSave(r, g)

CreateStep(r) ==
    \E t \in TripIds :
        \/ CrtLookup(r, t)
        \/ CrtCreateGroup(r, t)
        \/ \E k \in {"owner", "member"} : CrtAddOwner(r, t, k)
        \/ CrtCreateTeam(r, t)
        \/ CrtCleanup(r, t)
        \/ CrtSettle(r, t)
        \/ \E i \in 1 .. MaxList : CrtGetUser(r, t, i)
        \/ \E i \in 1 .. MaxList : CrtAddMember(r, t, i)
        \/ CrtSave(r, t)

CallStep(r) ==
    \/ ResolveActiveOwner(r)
    \/ ResolveArchivedOwner(r)
    \/ ArchiveQuery(r)
    \/ ArchiveStep(r)
    \/ UpdateQuery(r)
    \/ UpdateStep(r)
    \/ CreateQuery(r)
    \/ CreateStep(r)
    \/ Finish(r)

\* calls one after another: a call starts when none is running
Next ==
    \/ \E t \in TriggerTimes : StartCall(1, t)
    \/ CallStep(1)
    \/ \E id \in TripIds : TripChanged(id)
    \/ DeleteAllTrips

Spec == Init /\ [][Next]_vars

\* calls one after another on trips that stay as they are
NextFair ==
    \/ \E t \in TriggerTimes : StartCall(1, t)
    \/ CallStep(1)

\* the event loop runs every continuation that is ready and every request
\* gets its response: a call that can take a step takes one
FairSpec == Init /\ [][NextFair]_vars /\ WF_vars(CallStep(1))

\* two requests of the trigger endpoint whose calls overlap: the server
\* awaits nothing between two requests (unnamed/part_000, lines 71-93)
StartOverlapping(r, triggerTime) ==
    /\ run[r].pc = "idle"
    /\ StartCall(r, triggerTime)

\* one trip is enough for two calls to meet on
InitConc ==
    /\ InitConfig
    /\ InitState
    /\ trips = {Trip("t1", 10, <<<<"a">>, <<"B">>>>)}
    /\ diff = NoDiff
    /\ fnd = NoFind

NextConc ==
    \/ \E r \in Runs : \E t \in TriggerTimes : StartOverlapping(r, t)
    \/ \E r \in Runs : CallStep(r)
    \/ TripChanged("t1")
    \/ DeleteAllTrips

SpecConc == InitConc /\ [][NextConc]_vars

----------------------------------------------------------------------------
(* The membership diff of one synchronized group, on its own: the member  *)
(* list the directory returns and the crew list of the trip are inputs    *)

\* the accounts a member list is drawn from and the crew names as the
\* operations system spells them
DiffMembers == {UserId("a"), UserId("b"), UserId("c"), UserId("o"), UserId("r")}

DiffCrewNames == {<<"b">>, <<"C">>, <<"D">>}

ListsOver(S) == UNION {[1 .. n -> S] : n \in 0 .. MaxList}

MemberList(ids) == [i \in DOMAIN ids |-> [id |-> ids[i], userPrincipalName |-> UpnOfId[ids[i]]]]

InitDiff ==
    /\ InitConfig
    /\ InitState
    /\ trips = {}
    /\ \E ids \in ListsOver(DiffMembers) : \E names \in ListsOver(DiffCrewNames) :
            diff = [NoDiff EXCEPT !.members = MemberList(ids), !.crew = Crew(names)]
    /\ fnd = NoFind

\* lines 251-273 of updateExistingTeamsAsync on the two lists
ComputeDiff ==
    /\ ~ diff.done
    /\ LET crewMembers == normalizeUpnCasing(diff.crew)
           groupMembers == normalizeUpnCasing(diff.members)
       IN  diff' = [diff EXCEPT
                !.toAdd = crewMembersToAdd(crewMembers, groupMembers),
                !.toRemove = groupMembersToRemove(groupMembers, crewMembers, activeUpn),
                !.done = TRUE]
    /\ UNCHANGED <<cfgVars, ownerIds, trips, teams, groups, nextGroup, run, arch, upd,
                   crt, nFaults, ct, tok, del, fnd>>

NextDiff == ComputeDiff

SpecDiff == InitDiff /\ [][NextDiff]_vars

----------------------------------------------------------------------------
(* The access token of a TeamsApi object: AppContextTeamsApi acquires it    *)
(* with the client_credentials grant, UserContextTeamsApi is constructed   *)
(* with it.  Times are in seconds; tok.op[o] is the position of a public   *)
(* operation: awaiting the token response ("acquiring") or with its first  *)
(* Graph request issued ("request").                                       *)

expirationTimeBufferInSeconds == 60

\* response.expires_in: the lifetimes the identity provider gives a token
Lifetimes == {90, 120, 3600}

othersToken == <<cfgVars, ownerIds, trips, teams, groups, nextGroup, run, arch, upd,
                 crt, nFaults, diff, ct, del, fnd>>

\* a check that only asks whether a token is held
TokenFresh_NoExpiryCheck == tok.accessToken # 0

\* line 420: this.accessToken && (Date.now() < this.expirationTime)
TokenFresh == tok.accessToken # 0 /\ tok.now < tok.expirationTime

\* an operation of a user-context object that refreshes like the app-context one
TokStart_AlwaysRefresh(o) ==
    /\ tok.op[o] = "idle"
    /\ appContext \/ tok.accessToken # 0
    /\ tok' = [tok EXCEPT !.op[o] = IF TokenFresh THEN "request" ELSE "acquiring"]
    /\ UNCHANGED othersToken

\* a public operation is called: await this.refreshAccessTokenAsync() (lines
\* 110, 167, ...), which returns at once in user context (lines 400-402) and
\* when the token is fresh (lines 420-422), and posts a token request
\* otherwise (line 433); after it the first Graph request is issued
TokStart(o) ==
    /\ tok.op[o] = "idle"
    /\ appContext \/ tok.accessToken # 0
    /\ tok' = [tok EXCEPT !.op[o] = IF ~ appContext \/ TokenFresh
                                     THEN "request" ELSE "acquiring"]
    /\ UNCHANGED othersToken

\* a refresh that keeps the expiration time it has when that one is later
TokAcquired_KeepLaterExpiry(o) ==
    /\ tok.op[o] = "acquiring"
    /\ \/ /\ tok.issued < MaxTokens
          /\ \E expires_in \in Lifetimes :
                LET fresh == tok.now + (expires_in - expirationTimeBufferInSeconds)
                IN  tok' = [tok EXCEPT
                        !.accessToken = tok.issued + 1,
                        !.expirationTime = IF @ > fresh THEN @ ELSE fresh,
                        !.token = [id |-> tok.issued + 1, expires_in |-> expires_in,
                                   at |-> tok.now],
                        !.issued = @ + 1,
                        !.op[o] = "request"]
       \/ tok' = [tok EXCEPT !.op[o] = "idle"]
    /\ UNCHANGED othersToken

\* lines 433-437: the token response arrives and both fields are written
\* from it, or the token request fails and the operation rejects
TokAcquired(o) ==
    /\ tok.op[o] = "acquiring"
    /\ \/ /\ tok.issued < MaxTokens
          /\ \E expires_in \in Lifetimes :
                tok' = [tok EXCEPT
                    !.accessToken = tok.issued + 1,
                    !.expirationTime =
                        tok.now + (expires_in - expirationTimeBufferInSeconds),
                    !.token = [id |-> tok.issued + 1, expires_in |-> expires_in,
                               at |-> tok.now],
                    !.issued = @ + 1,
                    !.op[o] = "request"]
       \/ tok' = [tok EXCEPT !.op[o] = "idle"]
    /\ UNCHANGED othersToken

\* the Graph request of the operation is answered
TokDone(o) ==
    /\ tok.op[o] = "request"
    /\ tok' = [tok EXCEPT !.op[o] = "idle"]
    /\ UNCHANGED othersToken

\* lines 389-397: a UserContextTeamsApi is constructed with the token and
\* the expiration time of a sign-in; it replaces the object in use
NewUserApi ==
    /\ ~ appContext
    /\ \A o \in DOMAIN tok.op : tok.op[o] = "idle"
    /\ tok.issued < MaxTokens
    /\ \E expires_in \in Lifetimes :
            tok' = [tok EXCEPT
                !.accessToken = tok.issued + 1,
                !.expirationTime = tok.now + expires_in,
                !.token = [id |-> tok.issued + 1, expires_in |-> expires_in,
                           at |-> tok.now],
                !.issued = @ + 1]
    /\ UNCHANGED othersToken

\* Date.now() between two events: the clock advances in steps of 30 s
Tick ==
    /\ tok.now + 30 <= MaxTime
    /\ tok' = [tok EXCEPT !.now = @ + 30]
    /\ UNCHANGED othersToken

NextToken ==
    \/ \E o \in DOMAIN tok.op : TokStart(o) \/ TokAcquired(o) \/ TokDone(o)
    \/ NewUserApi
    \/ Tick

SpecToken == Init /\ [][NextToken]_vars

----------------------------------------------------------------------------
(* TeamsApi.createTeamAsync: a group is created and converted to a team,   *)
(* the conversion retried while the directory answers 404 or 500.  The     *)
(* directory's answers are inputs; ct.group is the new group as the        *)
(* directory holds it.                                                     *)

maxAttempts == 5

\* line 123: the delay between two attempts (10 s)
retryWaitInMilliseconds == 10000

\* the statuses the directory may answer a conversion with: 200 while the
\* group is not a team yet, 409 once it is, 404, 500 or a refusal (403) at
\* any time
ConvertStatuses(group) ==
    {404, 500, 403} \cup (IF group = "team" THEN {409} ELSE {200})

othersTeam == <<cfgVars, ownerIds, trips, teams, groups, nextGroup, run, arch, upd,
                crt, nFaults, diff, del, fnd>>

\* createTeamAsync is called and runs to its first await: in app context
\* without a fresh token refreshAccessTokenAsync posts the token request
\* (lines 110, 433); otherwise it returns at once (lines 400-402, 420-422)
\* and createGroupAsync posts the group (lines 113, 348)
CtCall ==
    /\ ct.pc = "idle"
    /\ ct' = [ct EXCEPT !.pc = IF ~ appContext \/ TokenFresh
                               THEN "createGroup" ELSE "token"]
    /\ UNCHANGED <<othersTeam, tok>>

\* lines 433-437 under line 110: the token response arrives, both token
\* fields are written and createGroupAsync posts the group; or the token
\* request fails and createTeamAsync throws before any group is requested
CtToken ==
    /\ ct.pc = "token"
    /\ \/ /\ tok.issued < MaxTokens
          /\ \E expires_in \in Lifetimes :
                tok' = [tok EXCEPT
                    !.accessToken = tok.issued + 1,
                    !.expirationTime =
                        tok.now + (expires_in - expirationTimeBufferInSeconds),
                    !.token = [id |-> tok.issued + 1, expires_in |-> expires_in,
                               at |-> tok.now],
                    !.issued = @ + 1]
          /\ ct' = [ct EXCEPT !.pc = "createGroup"]
       \/ /\ ct' = [ct EXCEPT !.error = "token", !.pc = "thrown"]
          /\ UNCHANGED tok
    /\ UNCHANGED othersTeam

\* lines 113-129: createGroupAsync returns, the loop is entered and the
\* first conversion is requested; or createGroupAsync throws
CtCreateGroup ==
    /\ ct.pc = "createGroup"
    /\ \/ ct' = [ct EXCEPT !.group = "group", !.attemptCount = 1, !.pc = "convert"]
       \/ ct' = [ct EXCEPT !.error = "createGroup", !.pc = "thrown"]
    /\ UNCHANGED <<othersTeam, tok>>

\* a conversion error that is always retried
CtConvert_RetryAny ==
    /\ ct.pc = "convert"
    /\ \E status \in ConvertStatuses(ct.group) : \E behindTheScenes \in BOOLEAN :
            LET answered == [ct EXCEPT !.attempts = Append(@, status)]
            IN  CASE status = 200 ->
                        ct' = [answered EXCEPT !.group = "team", !.pc = "returned"]
                  [] OTHER ->
                        ct' = [answered EXCEPT
                                !.group = IF status = 500 /\ behindTheScenes
                                          THEN "team" ELSE @,
                                !.pc = "wait"]
    /\ UNCHANGED <<othersTeam, tok>>

\* lines 128-146: createTeamFromGroupAsync returns or throws; a 500 may
\* have converted the group behind the scenes.  On a status that is not
\* retried the loop is left and deleteGroupAsync is called (lines 144, 150-153),
\* which runs to its first await: the token request in app context without a
\* fresh token (lines 167, 433), the DELETE otherwise (line 176)
CtConvert ==
    /\ ct.pc = "convert"
    /\ \E status \in ConvertStatuses(ct.group) : \E behindTheScenes \in BOOLEAN :
            LET answered == [ct EXCEPT !.attempts = Append(@, status)]
            IN  CASE status = 200 ->
                        ct' = [answered EXCEPT !.group = "team", !.pc = "returned"]
                  [] status \in {404, 500} ->
                        ct' = [answered EXCEPT
                                !.group = IF status = 500 /\ behindTheScenes
                                          THEN "team" ELSE @,
                                !.pc = "wait"]
                  [] status = 409 ->
                        ct' = [answered EXCEPT !.pc = "settings"]
                  [] OTHER ->
                        ct' = [answered EXCEPT !.deletes = @ + 1,
                                !.pc = IF ~ appContext \/ TokenFresh
                                       THEN "delete" ELSE "deleteToken"]
    /\ UNCHANGED <<othersTeam, tok>>

\* a loop that gives up without the clean-up
CtWait_NoCleanup ==
    /\ ct.pc = "wait"
    /\ tok' = [tok EXCEPT !.now = @ + retryWaitInMilliseconds \div 1000]
    /\ IF ct.attemptCount < maxAttempts
       THEN ct' = [ct EXCEPT !.waits = @ + 1, !.attemptCount = @ + 1, !.pc = "convert"]
       ELSE ct' = [ct EXCEPT !.waits = @ + 1, !.error = "convert", !.pc = "thrown"]
    /\ UNCHANGED othersTeam

\* lines 136-138, 125-126 and 150-154: the timer fires retryWaitInMilliseconds
\* after it was set; the loop goes on with the next attempt, or ends and
\* deleteGroupAsync is called, which runs to its first await: the token
\* request in app context without a fresh token (lines 167, 433), the
\* DELETE otherwise (line 176)
CtWait ==
    /\ ct.pc = "wait"
    /\ tok' = [tok EXCEPT !.now = @ + retryWaitInMilliseconds \div 1000]
    /\ IF ct.attemptCount < maxAttempts
       THEN ct' = [ct EXCEPT !.waits = @ + 1, !.attemptCount = @ + 1, !.pc = "convert"]
       ELSE ct' = [ct EXCEPT !.waits = @ + 1, !.deletes = @ + 1,
                       !.pc = IF ~ appContext \/ TokenFresh'
                              THEN "delete" ELSE "deleteToken"]
    /\ UNCHANGED othersTeam

\* line 142: getTeamSettingsAsync returns the team or throws
CtGetSettings ==
    /\ ct.pc = "settings"
    /\ \/ ct' = [ct EXCEPT !.pc = "returned"]
       \/ ct' = [ct EXCEPT !.error = "settings", !.pc = "thrown"]
    /\ UNCHANGED <<othersTeam, tok>>

\* lines 433-437 under line 167: the token response arrives, both token
\* fields are written and deleteGroupAsync sends the DELETE (line 176); or the
\* token request fails, deleteGroupAsync throws without a DELETE (caught,
\* line 155) and migrateTeamError is thrown (line 160)
CtDeleteToken ==
    /\ ct.pc = "deleteToken"
    /\ \/ /\ tok.issued < MaxTokens
          /\ \E expires_in \in Lifetimes :
                tok' = [tok EXCEPT
                    !.accessToken = tok.issued + 1,
                    !.expirationTime =
                        tok.now + (expires_in - expirationTimeBufferInSeconds),
                    !.token = [id |-> tok.issued + 1, expires_in |-> expires_in,
                               at |-> tok.now],
                    !.issued = @ + 1]
          /\ ct' = [ct EXCEPT !.pc = "delete"]
       \/ /\ ct' = [ct EXCEPT !.error = "convert", !.pc = "thrown"]
          /\ UNCHANGED tok
    /\ UNCHANGED othersTeam

\* lines 176 and 153-160: the DELETE is answered: deleteGroupAsync returns or
\* throws (caught, line 155); migrateTeamError is thrown
CtDelete ==
    /\ ct.pc = "delete"
    /\ \/ ct' = [ct EXCEPT !.group = "deleted", !.error = "convert", !.pc = "thrown"]
       \/ ct' = [ct EXCEPT !.error = "convert", !.pc = "thrown"]
    /\ UNCHANGED <<othersTeam, tok>>

NextTeam ==
    \/ CtCall
    \/ CtToken
    \/ CtCreateGroup
    \/ CtConvert
    \/ CtWait
    \/ CtGetSettings
    \/ CtDeleteToken
    \/ CtDelete

\* every request is answered and every timer fires
SpecTeam == Init /\ [][NextTeam]_vars /\ WF_vars(NextTeam)

\* a call for trigger time 3 creates the team of the trip; then two calls,
\* each for trigger time 10 or 25, run at the same time
NextRace ==
    \/ StartOverlapping(1, 3)
    \/ \E t \in {10, 25} :
            /\ run[1].triggerTime = 3 /\ run[1].pc = "resolved"
            /\ StartCall(1, t)
    \/ \E t \in {10, 25} : teams # {} /\ StartOverlapping(2, t)
    \/ \E r \in Runs : CallStep(r)

SpecRace == InitConc /\ [][NextRace]_vars

\* the scheduler keeps calling: besides the calls for other trigger times,
\* a call for trigger time 3, which has both trips inside the monitor
\* window, is started again and again
SpecSync ==
    /\ Init /\ [][NextFair]_vars
    /\ WF_vars(CallStep(1))
    /\ SF_vars(StartCall(1, 3))

----------------------------------------------------------------------------
(* TeamsUpdater.deleteAllTrackedTeamsAsync: one callback per record, which  *)
(* deletes the group and then the record; del.items[g] is the call the     *)
(* callback of group g awaits.  It is called between updateTeamsAsync      *)
(* calls.                                                                  *)

othersDel == <<cfgVars, ownerIds, trips, nextGroup, run, arch, upd, crt, diff, ct, tok, fnd>>

DelInFlight == \E g \in DOMAIN del.items : del.items[g] \in {"deleteGroup", "deleteRecord"}

\* lines 99-101: getAllTeamsAsync returns and every callback calls
\* deleteGroupAsync
DelStart ==
    /\ del.pc # "running" /\ ~ DelInFlight
    /\ CallOver(1) /\ ~ CallInFlight(1)
    /\ \/ /\ Succeeds(TRUE)
          /\ del' = [pc |-> "running",
                     items |-> [g \in {d.groupId : d \in teams} |-> "deleteGroup"]]
       \/ /\ Fails(TRUE)
          /\ del' = [pc |-> "rejected", items |-> EmptyFn]
    /\ UNCHANGED <<othersDel, teams, groups>>

\* a callback that deletes the record in its catch before it throws
DelGroup_DropRecord(g) ==
    /\ g \in DOMAIN del.items /\ del.items[g] = "deleteGroup"
    /\ \/ /\ Succeeds(GroupExists(g))
          /\ groups' = [groups EXCEPT ![g] = [NoGroup EXCEPT !.state = "deleted"]]
          /\ del' = [del EXCEPT !.items[g] = "deleteRecord"]
          /\ UNCHANGED teams
       \/ /\ ~ GroupExists(g)
          /\ UNCHANGED <<groups, nFaults, teams>>
          /\ del' = [del EXCEPT !.items[g] = "deleteRecord"]
       \/ /\ Fails(TRUE)
          /\ UNCHANGED groups
          /\ teams' = deleteTeamData(teams, g)
          /\ del' = [del EXCEPT !.items[g] = "failed", !.pc = "rejected"]
    /\ UNCHANGED othersDel

\* a callback that takes every error of deleteGroupAsync as "not found"
DelGroup_IgnoreErrors(g) ==
    /\ g \in DOMAIN del.items /\ del.items[g] = "deleteGroup"
    /\ \/ /\ Succeeds(GroupExists(g))
          /\ groups' = [groups EXCEPT ![g] = [NoGroup EXCEPT !.state = "deleted"]]
       \/ /\ Fails(TRUE)
          /\ UNCHANGED groups
       \/ /\ ~ GroupExists(g)
          /\ UNCHANGED <<groups, nFaults>>
    /\ del' = [del EXCEPT !.items[g] = "deleteRecord"]
    /\ UNCHANGED <<othersDel, teams>>

\* lines 105-113: deleteGroupAsync returns, or throws 404 for a group the
\* directory does not hold, and deleteTeamDataAsync is called; any other
\* error leaves the callback, and Promise.all (line 118) rejects
DelGroup(g) ==
    /\ g \in DOMAIN del.items /\ del.items[g] = "deleteGroup"
    /\ \/ /\ Succeeds(GroupExists(g))
          /\ groups' = [groups EXCEPT ![g] = [NoGroup EXCEPT !.state = "deleted"]]
          /\ del' = [del EXCEPT !.items[g] = "deleteRecord"]
       \/ /\ ~ GroupExists(g)
          /\ UNCHANGED <<groups, nFaults>>
          /\ del' = [del EXCEPT !.items[g] = "deleteRecord"]
       \/ /\ Fails(TRUE)
          /\ UNCHANGED groups
          /\ del' = [del EXCEPT !.items[g] = "failed", !.pc = "rejected"]
    /\ UNCHANGED <<othersDel, teams>>

\* line 116: deleteTeamDataAsync returns or throws
DelRecord(g) ==
    /\ g \in DOMAIN del.items /\ del.items[g] = "deleteRecord"
    /\ \/ /\ Succeeds(TRUE)
          /\ teams' = deleteTeamData(teams, g)
          /\ del' = [del EXCEPT !.items[g] = "done"]
       \/ /\ Fails(TRUE)
          /\ UNCHANGED teams
          /\ del' = [del EXCEPT !.items[g] = "failed", !.pc = "rejected"]
    /\ UNCHANGED <<othersDel, groups>>

\* line 118: Promise.all resolves when every callback has returned
DelFinish ==
    /\ del.pc = "running"
    /\ \A g \in DOMAIN del.items : del.items[g] = "done"
    /\ del' = [del EXCEPT !.pc = "resolved"]
    /\ UNCHANGED <<othersDel, teams, groups, nFaults>>

\* reconcile calls for two trigger times and the teardown, one after another
NextDel ==
    \/ del.pc # "running" /\ ~ DelInFlight /\ \E t \in {10, 25} : StartCall(1, t)
    \/ CallStep(1)
    \/ DelStart
    \/ \E g \in GroupIds : DelGroup(g) \/ DelRecord(g)
    \/ DelFinish

SpecDel == Init /\ [][NextDel]_vars

----------------------------------------------------------------------------
(* MongoDbAppDataStore.findActiveTeamsCreatedBeforeTimeAsync on a Teams     *)
(* collection with up to two documents, created at one trigger time each,  *)
(* archived or not                                                         *)

FindDocuments(trip, groupId) ==
    {[newTeamData(groupId, trip, c) EXCEPT !.archivalTime = a] :
        c \in TriggerTimes, a \in {NoTime, <<25>>}}

InitFind ==
    /\ InitConfig
    /\ InitState
    /\ trips = {}
    /\ diff = NoDiff
    /\ \E endTime \in TriggerTimes :
       \E one \in SUBSET FindDocuments(Trip("t1", 10, <<<<"a">>>>), <<"t1", 1>>) :
       \E two \in SUBSET FindDocuments(Trip("t2", 11, <<<<"b">>>>), <<"t2", 1>>) :
            /\ Cardinality(one) <= 1 /\ Cardinality(two) <= 1
            /\ fnd = [NoFind EXCEPT !.coll = one \cup two, !.endTime = endTime]

\* lines 77-93: find(filter).toArray resolves with the documents or rejects
FindActiveTeams ==
    /\ fnd.pc = "idle"
    /\ \/ /\ Succeeds(TRUE)
          /\ fnd' = [fnd EXCEPT
                !.pc = "resolved",
                !.documents = findActiveTeamsCreatedBeforeTime(fnd.coll, fnd.endTime)]
       \/ /\ Fails(TRUE)
          /\ fnd' = [fnd EXCEPT !.pc = "rejected"]
    /\ UNCHANGED <<cfgVars, ownerIds, trips, teams, groups, nextGroup, run, arch, upd,
                   crt, diff, ct, tok, del>>

SpecFind == InitFind /\ [][FindActiveTeams]_vars

----------------------------------------------------------------------------
(* Properties *)

\* C1: in every call, every operation of the archive phase is over before
\* the update phase issues its first operation, and every operation of the
\* update phase is over before the create phase issues its first operation
PhasesStrictlySequential ==
    \A r \in Runs :
        /\ run[r].pc \in {"update", "create"} => ~ PhaseInFlight(arch[r])
        /\ run[r].pc = "create" => ~ PhaseInFlight(upd[r])

\* C2: with calls one after another the store never holds two records of
\* one trip, and no group is created for a trip that has a record (a second
\* call right after the first creates nothing for the trips the first tracked)
NoDuplicateTeamForTrip ==
    [][/\ \A d1, d2 \in teams' : d1.tripId = d2.tripId => d1 = d2
       /\ \A t \in TripIds :
            getTeamDataByTrip(teams, t) # {} => nextGroup'[t] = nextGroup[t]]_vars

\* C2, its case: the create phase of a later call looked a tracked trip up
\* and ended without creating a group
SecondCallFindsTeam ==
    \E t \in TripIds :
        /\ run[1].pc = "create"
        /\ CrtItem(1, t, "done")
        /\ crt[1][t].groupId = NoGroupId
        /\ getTeamDataByTrip(teams, t) # {}
        /\ nextGroup[t] = 1

\* C3: two overlapping calls with different trigger times, neither of which
\* met a failure, create at most one group and persist at most one record
\* for a trip
OverlappingCallsCreateOnce ==
    (nFaults = 0 /\ run[1].triggerTime # run[2].triggerTime) =>
        \A t \in TripIds :
            /\ nextGroup[t] <= 1
            /\ Cardinality(getTeamDataByTrip(teams, t)) <= 1

\* C4: while an owner removal of an archive procedure is issued, none of
\* its member removals is still in flight and the group carries the
\* [ARCHIVED] tag
OwnersRemovedLast ==
    \A r \in Runs : \A g \in DOMAIN arch[r] :
        arch[r][g].remO # {} =>
            /\ arch[r][g].rem = {}
            /\ startsWithArchivedTag(groups[g].displayName)

\* C4, its case: owner removals are in flight for a group that had members
\* to remove and a name without the tag
OwnerRemovalsIssued ==
    \E r \in Runs : \E g \in DOMAIN arch[r] :
        /\ arch[r][g].remO # {}
        /\ arch[r][g].members \ {ownerIds.archived} # {}
        /\ arch[r][g].displayName # <<>>
        /\ ~ startsWithArchivedTag(arch[r][g].displayName)

\* C5: the archive phase for trigger time T takes as candidates exactly the
\* records without archivalTime whose snapshot departs strictly before
\* T - 14, whatever their creationTime
ArchiveCandidatesByDeparture ==
    [][\A r \in Runs :
        (run[r].pc = "archiveQuery" /\ run'[r].pc = "archive") =>
            DOMAIN arch'[r] =
                {d.groupId : d \in {x \in teams :
                    /\ x.archivalTime = NoTime
                    /\ x.tripSnapshot.departureTime < run[r].triggerTime - 14}}]_vars

\* C6: the create phase for trigger time T maps over exactly the trips that
\* the Trips collection holds with T <= departureTime <= T + 7 when it is
\* queried, a lookup that returns goes on to create the group exactly when
\* the store has no record of the trip, and a group is created only for a
\* trip that was read with its departure in the window and has no record
CreateCandidatesInWindow ==
    [][\A r \in Runs :
        LET T == run[r].triggerTime
            InWindow(x) == T <= x.departureTime /\ x.departureTime <= T + 7
        IN  /\ (run[r].pc = "update" /\ run'[r].pc = "create") =>
                    /\ DOMAIN crt'[r] = {x.tripId : x \in {y \in trips : InWindow(y)}}
                    /\ \A t \in DOMAIN crt'[r] :
                            crt'[r][t].trip \in trips /\ crt'[r][t].trip.tripId = t
            /\ \A t \in DOMAIN crt[r] :
                    (crt[r][t].pc = "lookup" /\ crt'[r][t].pc # "lookup"
                        /\ nFaults' = nFaults) =>
                        (crt'[r][t].pc = "createGroup"
                            <=> getTeamDataByTrip(teams, t) = {})
            /\ \A t \in DOMAIN crt[r] :
                    (crt[r][t].pc = "createGroup" /\ nextGroup'[t] # nextGroup[t]) =>
                        InWindow(crt[r][t].trip) /\ getTeamDataByTrip(teams, t) = {}]_vars

\* C6, its case: at trigger time 3 the trip that departs at 3 + 7 is to get
\* a group and the trip that departs later is not a candidate
CreateAtWindowEdge ==
    /\ run[1].pc = "create" /\ run[1].triggerTime = 3
    /\ CrtItem(1, "t1", "createGroup")
    /\ "t2" \notin DOMAIN crt[1]
    /\ \E x \in trips : x.tripId = "t1" /\ x.departureTime = 3 + 7
    /\ \E y \in trips : y.tripId = "t2" /\ y.departureTime > 3 + 7

\* C7: the update phase for trigger time T synchronizes exactly the records
\* without archivalTime whose snapshot departs strictly after T - 7
UpdateCandidatesByDeparture ==
    [][\A r \in Runs :
        (run[r].pc = "archive" /\ run'[r].pc = "update") =>
            DOMAIN upd'[r] =
                {d.groupId : d \in {x \in teams :
                    /\ x.archivalTime = NoTime
                    /\ x.tripSnapshot.departureTime > run[r].triggerTime - 7}}]_vars

\* C8: in each cycle every active team that exists at the trigger time and
\* whose trip has not left, or left up to 14 days before the trigger time,
\* is synchronized by the update step
UpdateCoversFourteenDays ==
    [][\A r \in Runs :
        (run[r].pc = "archive" /\ run'[r].pc = "update") =>
            \A d \in teams :
                (/\ d.archivalTime = NoTime
                 /\ d.creationTime <= run[r].triggerTime
                 /\ d.tripSnapshot.departureTime >= run[r].triggerTime - 14) =>
                    d.groupId \in DOMAIN upd'[r]]_vars

\* C9: with names compared without regard to case, the users added are
\* exactly crew - members, the members removed are exactly those of
\* members - crew other than the owner placeholder, nobody of
\* crew /\ members is added or removed, and members {A,B,C} with crew
\* {B,C,D} give toAdd = {D} and toRemove = {A}
DiffIsSetDifference ==
    diff.done =>
        LET crewU == {toLowerCase(diff.crew[i].userPrincipalName) : i \in DOMAIN diff.crew}
            memU == {toLowerCase(diff.members[i].userPrincipalName) : i \in DOMAIN diff.members}
            addU == {toLowerCase(diff.toAdd[i].userPrincipalName) : i \in DOMAIN diff.toAdd}
            remU == {toLowerCase(diff.toRemove[i].userPrincipalName) : i \in DOMAIN diff.toRemove}
        IN  /\ addU = crewU \ memU
            /\ remU = (memU \ crewU) \ {activeUpn}
            /\ (addU \cup remU) \cap (crewU \cap memU) = {}
            /\ (memU = {<<"a">>, <<"b">>, <<"c">>} /\ crewU = {<<"b">>, <<"c">>, <<"d">>}) =>
                    (addU = {<<"d">>} /\ remU = {<<"a">>})

\* C9, its case: the diff of members A, B, C and crew b, C, D is computed
DiffOfExample ==
    /\ diff.done
    /\ diff.members = MemberList(<<UserId("a"), UserId("b"), UserId("c")>>)
    /\ diff.crew = Crew(<<<<"b">>, <<"C">>, <<"D">>>>)
    /\ Len(diff.toAdd) = 1 /\ diff.toAdd[1].userPrincipalName = <<"d">>
    /\ Len(diff.toRemove) = 1 /\ diff.toRemove[1].id = UserId("a")

\* C10 as stated: the update phase never issues a member removal for the
\* active-owner account nor for the archive-owner account
NeverRemovesEitherOwner ==
    \A r \in Runs : \A g \in DOMAIN upd[r] : \A m \in upd[r][g].rem :
        toLowerCase(UpnOfId[m]) \notin {activeUpn, archivedUpn}

\* C10, amended: the update phase never issues a member removal for the
\* active-owner account
NeverRemovesActiveOwner ==
    \A r \in Runs : \A g \in DOMAIN upd[r] : \A m \in upd[r][g].rem :
        toLowerCase(UpnOfId[m]) # activeUpn

\* C10, its case: removals are issued for a group of which the active owner
\* is a member while it is not on the crew list
RemovalsSpareActiveOwner ==
    \E r \in Runs : \E g \in DOMAIN upd[r] :
        /\ upd[r][g].pc = "removing" /\ upd[r][g].rem # {}
        /\ ownerIds.active \in upd[r][g].members
        /\ \A i \in DOMAIN upd[r][g].trip.crewMembers :
                upd[r][g].trip.crewMembers[i].userPrincipalName # activeUpn

\* C11: the failure of one candidate of a phase changes neither the other
\* candidates of the phase nor the position of the call; a phase is left
\* only with all its candidates over, for the next phase (the create phase
\* for the end of the call) unless the next candidate set cannot be read;
\* and a call in which a candidate failed goes on to its end
CandidateFailureContained ==
    /\ [][\A g \in DOMAIN arch[1] \cap DOMAIN arch'[1] :
            (arch[1][g].pc # "failed" /\ arch'[1][g].pc = "failed") =>
                /\ run'[1] = run[1]
                /\ \A h \in DOMAIN arch[1] \ {g} : arch'[1][h] = arch[1][h]]_vars
    /\ [][\A g \in DOMAIN upd[1] \cap DOMAIN upd'[1] :
            (upd[1][g].pc # "failed" /\ upd'[1][g].pc = "failed") =>
                /\ run'[1] = run[1]
                /\ \A h \in DOMAIN upd[1] \ {g} : upd'[1][h] = upd[1][h]]_vars
    /\ [][\A t \in DOMAIN crt[1] \cap DOMAIN crt'[1] :
            (crt[1][t].pc # "failed" /\ crt'[1][t].pc = "failed") =>
                /\ run'[1] = run[1]
                /\ \A h \in DOMAIN crt[1] \ {t} : crt'[1][h] = crt[1][h]]_vars
    /\ [][run'[1].pc # run[1].pc =>
            /\ run[1].pc = "archive" =>
                    run'[1].pc \in {"update", "rejected"} /\ PhaseAwaited(arch[1])
            /\ run[1].pc = "update" =>
                    run'[1].pc \in {"create", "rejected"} /\ PhaseAwaited(upd[1])
            /\ run[1].pc = "create" =>
                    run'[1].pc = "resolved" /\ PhaseAwaited(crt[1])]_vars
    /\ (/\ run[1].pc \in {"archive", "update", "create"}
        /\ \/ \E g \in DOMAIN arch[1] : arch[1][g].pc = "failed"
           \/ \E g \in DOMAIN upd[1] : upd[1][g].pc = "failed"
           \/ \E t \in DOMAIN crt[1] : crt[1][t].pc = "failed")
            ~> (run[1].pc \in {"resolved", "rejected"})

\* C11, its case: the create phase runs after an update phase in which one
\* candidate failed and another one was synchronized
LaterPhaseAfterFailure ==
    /\ run[1].pc = "create"
    /\ \E g \in DOMAIN upd[1] : \E h \in DOMAIN upd[1] \ {g} :
            upd[1][g].pc = "failed" /\ upd[1][h].pc = "done"

\* C12 as stated: updateTeamsAsync rejects only in a step that reads a
\* candidate set (the active-teams query of the archive or update phase,
\* the trips-in-range query of the create phase), never in the step of a
\* candidate
RejectsOnlyOnQueryFailure ==
    [][(run'[1].pc = "rejected" /\ run[1].pc # "rejected") =>
            /\ run[1].pc \in {"archiveQuery", "archive", "update"}
            /\ <<arch, upd, crt, teams, groups>>' = <<arch, upd, crt, teams, groups>>]_vars

\* C12: updateTeamsAsync rejects only in the step that resolves an owner
\* account or in a step that reads a candidate set, never in the step of a
\* candidate; a call that reached its create phase does not reject
RejectsOnlyOnSetupFailure ==
    [][(run'[1].pc = "rejected" /\ run[1].pc # "rejected") =>
            /\ run[1].pc \in {"resolveActive", "resolveArchived",
                               "archiveQuery", "archive", "update"}
            /\ <<arch, upd, crt, teams, groups>>' = <<arch, upd, crt, teams, groups>>]_vars

\* C12, its case: the call rejected because the archive-owner account could
\* not be resolved, before any candidate set was read
RejectedOnOwnerResolution ==
    /\ run[1].pc = "rejected"
    /\ ownerIds.active # NoId
    /\ ownerIds.archived = NoId

\* C13: when a call of archive steps 2 to 5 fails for a group although
\* the directory could have carried it out (an error other than "not
\* found" or "already so"), the archive of the group is aborted: its
\* callback leaves through its catch, before archivalTime is set
ArchiveStepFailureAborts ==
    [][\A g \in DOMAIN arch[1] \cap DOMAIN arch'[1] :
            (/\ nFaults' = nFaults + 1
             /\ arch'[1][g] # arch[1][g]
             /\ arch[1][g].pc \in {"addMember", "addOwner", "removeMembers",
                                    "getGroup", "updateGroup", "removeOwners"})
            => arch'[1][g].pc = "failed"]_vars

\* C14: a call for trigger time T whose archive query succeeds starts the
\* archive procedure on the group of every record without archivalTime
\* whose snapshot departed before T - 14, and a procedure that succeeds
\* is followed by saving the record with archivalTime = T
ArchivesDepartedTeams ==
    /\ [][(run[1].pc = "archiveQuery" /\ run'[1].pc = "archive") =>
            \A d \in teams :
                (/\ d.archivalTime = NoTime
                 /\ d.tripSnapshot.departureTime
                        < run[1].triggerTime - daysInPastToArchiveTrips)
                => /\ d.groupId \in DOMAIN arch'[1]
                   /\ arch'[1][d.groupId].pc = "getMembers"]_vars
    /\ [][\A g \in DOMAIN arch[1] \cap DOMAIN arch'[1] :
            (arch[1][g].pc = "save" /\ arch'[1][g].pc = "done") =>
                \E d \in teams' :
                    d.groupId = g /\ d.archivalTime = <<run[1].triggerTime>>]_vars

\* C15: with calls one after another, a record that has an archivalTime
\* keeps that record and that archivalTime in every step: the only change
\* of archivalTime is from absent to set
ArchivalTimeSetOnce ==
    [][\A d \in teams :
            d.archivalTime # NoTime =>
                \E e \in teams' :
                    /\ e.groupId = d.groupId
                    /\ e.tripId = d.tripId
                    /\ e.archivalTime = d.archivalTime]_vars

\* C15, its case: a later call with a later trigger time has read its
\* archive candidates while the store holds a record archived by an
\* earlier call
ArchivedRecordInLaterCall ==
    /\ run[1].pc = "archive"
    /\ \E d \in teams :
            /\ d.archivalTime # NoTime
            /\ d.archivalTime[1] < run[1].triggerTime
            /\ d.tripSnapshot.departureTime
                    < run[1].triggerTime - daysInPastToArchiveTrips

\* C16: the create query gives every trip X that departs in [T, T + 7] a
\* callback that holds X, and a callback changes the trip it holds only by
\* writing the crew names in lower case.  When no call has failed and the
\* create phase is over, every callback has returned and its trip has
\* exactly one record.  In the step in which a callback that created a team
\* saves its record with no call failed, one group was ever created for X,
\* it is a team whose members are the crew of X (with the active owner in
\* app context), and the record is {groupId, tripId, tripSnapshot = X with
\* the crew names in lower case, creationTime = T} without archivalTime
CreatesOneTeamForTrip ==
    /\ [][(run[1].pc = "update" /\ run'[1].pc = "create") =>
            \A X \in trips :
                DepartsInRange(X.departureTime, run[1].triggerTime,
                               maxDepartureTimeToCreate(run[1].triggerTime)) =>
                    X.tripId \in DOMAIN crt'[1] /\ crt'[1][X.tripId].trip = X]_vars
    /\ [][\A t \in DOMAIN crt[1] \cap DOMAIN crt'[1] :
            (run'[1].pc = "create" /\ ~ ItemOver(crt[1][t]) /\ ~ ItemOver(crt'[1][t])) =>
                crt'[1][t].trip \in
                    {crt[1][t].trip,
                     [crt[1][t].trip EXCEPT !.crewMembers = normalizeUpnCasing(@)]}]_vars
    /\ []((nFaults = 0 /\ run[1].pc = "create" /\ PhaseAwaited(crt[1])) =>
            \A t \in DOMAIN crt[1] :
                /\ crt[1][t].pc = "done"
                /\ Cardinality(getTeamDataByTrip(teams, t)) = 1)
    /\ [][\A t \in DOMAIN crt[1] \cap DOMAIN crt'[1] :
            (crt[1][t].pc = "save" /\ crt'[1][t].pc = "done" /\ nFaults' = 0) =>
                LET g == crt[1][t].groupId
                    X == crt[1][t].trip
                    crew == normalizeUpnCasing(X.crewMembers)
                IN  /\ nextGroup[t] = 1
                    /\ g = <<t, 1>>
                    /\ groups[g].state = "team"
                    /\ groups[g].members =
                            UNION {getUserByUpn(crew[i].userPrincipalName) :
                                        i \in DOMAIN crew}
                            \cup (IF appContext THEN {ownerIds.active} ELSE {})
                    /\ getTeamDataByTrip(teams', t) =
                            {[groupId |-> g,
                              tripId |-> t,
                              tripSnapshot |-> [X EXCEPT !.crewMembers = crew],
                              creationTime |-> run[1].triggerTime,
                              archivalTime |-> NoTime]}]_vars

\* C16, its case: the call for trigger time 3 has created the team of the
\* untracked trip t1, which departs in the window and has two crew members,
\* and no call has failed
TeamCreatedForUntrackedTrip ==
    /\ nFaults = 0
    /\ run[1].pc = "create" /\ run[1].triggerTime = 3
    /\ PhaseAwaited(crt[1])
    /\ "t1" \in DOMAIN crt[1]
    /\ crt[1]["t1"].groupId = <<"t1", 1>>
    /\ \E X \in trips : X.tripId = "t1" /\ Len(X.crewMembers) = 2
    /\ Cardinality(groups[<<"t1", 1>>].members) >= 2

\* C17: a create callback whose group creation, owner addition or
\* conversion fails leaves through the clean-up or the catch; from the
\* failure to the end of the call the store has no record of its trip, and
\* the callback stays given up
FailedCreationPersistsNothing ==
    [][\A t \in DOMAIN crt[1] \cap DOMAIN crt'[1] :
            /\ (/\ nFaults' # nFaults
                /\ crt'[1][t] # crt[1][t]
                /\ crt[1][t].pc \in {"createGroup", "addOwner", "createTeam"})
                    => crt'[1][t].pc \in {"cleanup", "failed"}
            /\ (/\ crt[1][t].pc \in {"createGroup", "addOwner", "createTeam", "cleanup"}
                /\ crt'[1][t].pc \in {"cleanup", "failed"})
                    => getTeamDataByTrip(teams', t) = {}
            /\ crt[1][t].pc \in {"cleanup", "failed"}
                    => /\ crt'[1][t].pc \in {"cleanup", "failed"}
                       /\ getTeamDataByTrip(teams', t) = getTeamDataByTrip(teams, t)]_vars

\* C17, its case: the conversion of the first group of trip t1 failed and
\* the group was deleted; a later call finds no record of t1 and is about
\* to create a group for it again
CreateCandidateAgain ==
    /\ nextGroup["t1"] = 1
    /\ groups[<<"t1", 1>>].state = "deleted"
    /\ getTeamDataByTrip(teams, "t1") = {}
    /\ CrtItem(1, "t1", "createGroup")

\* C18: deleteGroupAsync is called at most once by createTeamAsync; it is
\* called only when the last conversion attempt has failed (with a status
\* that is not retried, or with 404 or 500 on attempt 5) and no attempt
\* follows it; and the conversion error reaches the caller only after that
\* one call
DeletesGroupOnceOnFailure ==
    /\ ct.deletes <= 1
    /\ ct.deletes = 1 =>
            /\ ct.pc \in {"deleteToken", "delete", "thrown"}
            /\ ct.attempts # <<>>
            /\ Len(ct.attempts) = ct.attemptCount
            /\ ct.attempts[Len(ct.attempts)] \notin {200, 409}
            /\ ct.attempts[Len(ct.attempts)] \in {404, 500} =>
                    Len(ct.attempts) = maxAttempts
    /\ (ct.pc = "thrown" /\ ct.error = "convert") => ct.deletes = 1

\* C18, its case: five conversion attempts failed, deleteGroupAsync was
\* called once and the error has reached the caller
ThrownAfterAllRetries ==
    /\ ct.pc = "thrown"
    /\ ct.error = "convert"
    /\ Len(ct.attempts) = maxAttempts
    /\ ct.deletes = 1

\* C19: when createTeamAsync throws after the group was created, the
\* directory no longer holds the group
NoOrphanedGroup ==
    (ct.pc = "thrown" /\ ct.group # "absent") => ct.group = "deleted"

\* C20: at most 5 conversion attempts are made; every attempt but the last
\* was answered 404 or 500; an attempt after the first is requested only
\* when one wait of 10 s has elapsed after each earlier attempt; after an
\* answer that is neither success, 404, 500 nor 409 no attempt is requested;
\* and the call ends, returned or thrown
ConversionRetriesBounded ==
    /\ [](/\ ct.attemptCount <= maxAttempts
          /\ Len(ct.attempts) <= ct.attemptCount
          /\ \A i \in 1 .. Len(ct.attempts) - 1 : ct.attempts[i] \in {404, 500}
          /\ ct.pc = "convert" =>
                /\ Len(ct.attempts) = ct.attemptCount - 1
                /\ ct.waits = ct.attemptCount - 1
                /\ tok.now = (ct.attemptCount - 1) * (retryWaitInMilliseconds \div 1000)
          /\ (/\ ct.attempts # <<>>
              /\ ct.attempts[Len(ct.attempts)] \notin {200, 404, 500, 409})
                => ct.pc \in {"deleteToken", "delete", "thrown"})
    /\ <>(ct.pc \in {"returned", "thrown"})

\* C20, its case: the fifth attempt succeeded after four retried answers
\* and four waits
ReturnedOnLastAttempt ==
    /\ ct.pc = "returned"
    /\ Len(ct.attempts) = maxAttempts
    /\ ct.waits = maxAttempts - 1
    /\ ct.group = "team"

\* C21: once a conversion attempt was answered 409, createTeamAsync never
\* calls deleteGroupAsync and never throws: it fetches the team and returns
\* it, the group being a team in the directory
ConflictReturnsExistingTeam ==
    (ct.attempts # <<>> /\ ct.attempts[Len(ct.attempts)] = 409) =>
        /\ ct.deletes = 0
        /\ ct.pc \in {"settings", "returned"}
        /\ ct.group = "team"

\* C22: in app context an operation that is called acquires a token
\* exactly when none is held or the clock is at or past the time the held
\* token was acquired + expires_in - 60 s, and whenever an operation issues
\* its first request the fields hold a token acquired less than
\* expires_in - 60 s ago
AppTokenValidAtFirstRequest ==
    [][appContext =>
        \A o \in DOMAIN tok.op :
            /\ (tok.op[o] = "idle" /\ tok'.op[o] # "idle") =>
                    (tok'.op[o] = "acquiring" <=>
                        \/ tok.accessToken = 0
                        \/ tok.now >= tok.token.at + tok.token.expires_in - 60)
            /\ (tok.op[o] # "request" /\ tok'.op[o] = "request") =>
                    /\ tok'.accessToken # 0
                    /\ tok'.accessToken = tok'.token.id
                    /\ tok'.now < tok'.token.at + tok'.token.expires_in - 60]_vars

\* C22, its case: in app context the first token has run into its buffer,
\* a second one was acquired and an operation has issued its request with it
RequestWithSecondToken ==
    /\ appContext
    /\ tok.accessToken = 2
    /\ tok.now > 0
    /\ \E o \in DOMAIN tok.op : tok.op[o] = "request"

\* C23: in user context a step changes accessToken or expirationTime only
\* if it is the construction of a new object, with no operation running;
\* no operation acquires a token
UserTokenNeverRefreshed ==
    [][~ appContext =>
        /\ \A o \in DOMAIN tok.op : tok'.op[o] # "acquiring"
        /\ \/ /\ tok'.accessToken = tok.accessToken
              /\ tok'.expirationTime = tok.expirationTime
           \/ /\ tok'.issued = tok.issued + 1
              /\ \A o \in DOMAIN tok.op : tok.op[o] = "idle" /\ tok'.op[o] = "idle"]_vars

\* C23, its case: in user context an operation has issued its request with
\* a token whose expiration time has passed
RequestWithExpiredUserToken ==
    /\ ~ appContext
    /\ tok.accessToken # 0
    /\ tok.now >= tok.expirationTime
    /\ \E o \in DOMAIN tok.op : tok.op[o] = "request"

\* C24: deleteAllTrackedTeamsAsync starts one callback for every record of
\* the store; a record is deleted only when the directory no longer holds
\* its group (deleted by the callback, or absent and answered 404); and
\* when the call has resolved, every callback has returned, no record of
\* any of those groups is in the store and none of the groups exists
TeardownDeletesGroupThenRecord ==
    /\ [][(del.pc # "running" /\ del'.pc = "running") =>
            DOMAIN del'.items = {d.groupId : d \in teams}]_vars
    /\ [][\A d \in teams :
            (\A e \in teams' : e.groupId # d.groupId) =>
                /\ ~ GroupExists(d.groupId)
                /\ d.groupId \in DOMAIN del.items
                /\ del.items[d.groupId] = "deleteRecord"]_vars
    /\ [](del.pc = "resolved" =>
            \A g \in DOMAIN del.items :
                /\ del.items[g] = "done"
                /\ ~ GroupExists(g)
                /\ \A d \in teams : d.groupId # g)

\* C24, its case: the teardown has resolved after deleting the groups and
\* the records of two tracked teams
TeardownResolved ==
    /\ del.pc = "resolved"
    /\ Cardinality(DOMAIN del.items) = 2
    /\ teams = {}

\* C25: every step keeps every groupId of the tracking store, except the
\* step in which a callback of deleteAllTrackedTeamsAsync deletes its record
OnlyTeardownDeletesRecords ==
    [][\/ {d.groupId : d \in teams} \subseteq {d.groupId : d \in teams'}
       \/ /\ del'.items # del.items
          /\ UNCHANGED <<run, arch, upd, crt>>]_vars

\* C25, its case: reconcile calls have left two records in the store, one
\* of them archived, and no teardown was called
ArchivedRecordKept ==
    /\ del.pc = "idle"
    /\ run[1].pc = "resolved"
    /\ Cardinality(teams) = 2
    /\ \E d \in teams : d.archivalTime # NoTime

\* C26: a create callback starts to resolve and add crew members only in
\* the step that ends its settle delay, and it enters the delay only when
\* the team creation returned; until then it has no resolve or add call
\* and its group has no member other than the active owner
AddsOnlyAfterSettleDelay ==
    /\ [][\A r \in Runs : \A t \in DOMAIN crt[r] \cap DOMAIN crt'[r] :
            /\ (crt'[r][t].adds # <<>> /\ crt[r][t].adds = <<>>) =>
                    crt[r][t].pc = "settle"
            /\ (crt'[r][t].pc = "settle" /\ crt[r][t].pc # "settle") =>
                    /\ crt[r][t].pc = "createTeam"
                    /\ groups'[crt[r][t].groupId].state = "team"]_vars
    /\ [](\A r \in Runs : \A t \in DOMAIN crt[r] :
            crt[r][t].pc \in {"createGroup", "addOwner", "createTeam", "settle"} =>
                /\ crt[r][t].adds = <<>>
                /\ crt[r][t].groupId # NoGroupId =>
                        groups[crt[r][t].groupId].members \subseteq {ownerIds.active})

\* C26, its case: after the delay a crew member has been resolved and added
\* to the new team while the other adds are still running
CrewAddedAfterDelay ==
    \E r \in Runs : \E t \in DOMAIN crt[r] :
        /\ crt[r][t].pc = "adding"
        /\ groups[crt[r][t].groupId].state = "team"
        /\ \E i \in DOMAIN crt[r][t].adds :
                /\ crt[r][t].adds[i].st = "done"
                /\ crt[r][t].adds[i].id \in groups[crt[r][t].groupId].members

\* C27: when a call has resolved, no callback of its three phases has a
\* directory call or a store write in flight
NothingInFlightWhenResolved ==
    \A r \in Runs : run[r].pc = "resolved" => ~ CallInFlight(r)

\* C28: on rosters that stay as they are, when reconcile calls keep being
\* triggered for a time that has every trip inside the monitor window and
\* directory calls fail only finitely often, from some point on the
\* members of the group of every active record, apart from the active
\* owner, are the users of the crew roster of its trip
MembershipConverges ==
    <>[](\A d \in teams :
            d.archivalTime = NoTime =>
                groups[d.groupId].members \ {ownerIds.active} =
                    UNION {UNION {getUserByUpn(x.crewMembers[i].userPrincipalName) :
                                    i \in DOMAIN x.crewMembers} :
                            x \in {y \in trips : y.tripId = d.tripId}})

\* C29: the write-back of an update callback keeps the archivalTime that
\* the record of its group has in the store at that moment
WriteBackKeepsArchivalTime ==
    [][\A r \in Runs : \A g \in DOMAIN upd[r] :
            (upd[r][g].pc = "save" /\ g \in DOMAIN upd'[r] /\ upd'[r][g].pc = "done") =>
                \A d \in teams :
                    (d.groupId = g /\ d.archivalTime # NoTime) =>
                        \E e \in teams' :
                            e.groupId = g /\ e.archivalTime = d.archivalTime]_vars

\* C30: in the step that sets archivalTime on a record, the group of the
\* record has no member and no owner other than the archive owner
ArchivedGroupIsEmptied ==
    [][\A d \in teams : \A e \in teams' :
            (e.groupId = d.groupId /\ d.archivalTime = NoTime /\ e.archivalTime # NoTime) =>
                /\ groups[d.groupId].members \subseteq {ownerIds.archived}
                /\ groups[d.groupId].owners \subseteq {ownerIds.archived}]_vars

\* C31: no display name holds the tag more than once, the group of an
\* archived record has a name that starts with the tag, and a name that
\* starts with the tag is not changed by any step
ArchivedTagExactlyOnce ==
    /\ [](\A g \in GroupIds :
            /\ Len(SelectSeq(groups[g].displayName, LAMBDA x : x = archivedTag)) <= 1
            /\ (\E d \in teams : d.groupId = g /\ d.archivalTime # NoTime) =>
                    Head(groups[g].displayName \o <<"">>) = archivedTag)
    /\ [][\A g \in GroupIds :
            Head(groups[g].displayName \o <<"">>) = archivedTag =>
                groups'[g].displayName = groups[g].displayName]_vars

\* C31, its case: an archive attempt was given up after the rename, and the
\* next attempt on the same group has read the tagged name and goes on
\* without renaming
ArchiveResumedOnTaggedName ==
    \E g \in DOMAIN arch[1] :
        /\ nFaults > 0
        /\ arch[1][g].pc \in {"removeOwners", "save"}
        /\ Head(arch[1][g].displayName \o <<"">>) = archivedTag
        /\ groups[g].displayName = arch[1][g].displayName

\* C32: while an archive procedure is past its two adds, the archive owner
\* is a member and an owner of the group; while it runs, the group has an
\* owner; and none of its steps takes a member or an owner out of the group
\* before the archive owner is both, or takes the archive owner out
ArchiveOwnerAddedBeforeRemovals ==
    /\ [](\A r \in Runs : \A g \in DOMAIN arch[r] :
            /\ arch[r][g].pc \in {"removeMembers", "getGroup", "updateGroup",
                                    "removeOwners", "save"} =>
                    /\ ownerIds.archived \in groups[g].members
                    /\ ownerIds.archived \in groups[g].owners
            /\ ~ ItemOver(arch[r][g]) => groups[g].owners # {})
    /\ [][\A r \in Runs : \A g \in DOMAIN arch[r] :
            LET gone == (groups[g].members \ groups'[g].members) \cup
                        (groups[g].owners \ groups'[g].owners)
            IN  (~ ItemOver(arch[r][g]) /\ gone # {}) =>
                    /\ ownerIds.archived \notin gone
                    /\ ownerIds.archived \in groups[g].members
                    /\ ownerIds.archived \in groups[g].owners]_vars

\* C32, its case: the procedure has added the archive owner, removed the
\* crew members and is removing the former owner
RemovingFormerOwner ==
    \E r \in Runs : \E g \in DOMAIN arch[r] :
        /\ arch[r][g].pc = "removeOwners"
        /\ arch[r][g].remO # {}
        /\ ownerIds.archived \notin arch[r][g].owners
        /\ groups[g].members = {ownerIds.archived}
        /\ groups[g].owners = arch[r][g].remO \cup {ownerIds.archived}

\* C33: a step in which an update callback fails leaves the store as it
\* was, and the tripSnapshot of a record is replaced only by an update
\* callback whose adds have all returned, which has no removal left, and
\* whose group has, apart from the active owner, exactly the users of the
\* crew roster it read as members
SnapshotSavedOnlyAfterSync ==
    /\ [][\A r \in Runs : \A g \in DOMAIN upd[r] \cap DOMAIN upd'[r] :
            (upd[r][g].pc # "failed" /\ upd'[r][g].pc = "failed") =>
                teams' = teams]_vars
    /\ [][\A d \in teams : \A e \in teams' :
            (e.groupId = d.groupId /\ e.tripSnapshot # d.tripSnapshot) =>
                \E r \in Runs :
                    /\ d.groupId \in DOMAIN upd[r]
                    /\ upd[r][d.groupId].pc = "save"
                    /\ e.tripSnapshot = upd[r][d.groupId].trip
                    /\ AddsOver(upd[r][d.groupId].adds)
                    /\ upd[r][d.groupId].rem = {}
                    /\ groups[d.groupId].members \ getUserByUpn(activeUpn) =
                         UNION {getUserByUpn(e.tripSnapshot.crewMembers[i].userPrincipalName) :
                                    i \in DOMAIN e.tripSnapshot.crewMembers}]_vars

\* C33, its case: the roster of a tracked trip was changed, the update of
\* its group has failed after a directory call failed, and the record still
\* holds the snapshot of the old roster
FailedSyncKeptSnapshot ==
    \E g \in DOMAIN upd[1] : \E d \in teams : \E x \in trips :
        /\ upd[1][g].pc = "failed" /\ nFaults > 0
        /\ d.groupId = g /\ x.tripId = d.tripId
        /\ normalizeUpnCasing(x.crewMembers) # d.tripSnapshot.crewMembers

\* C34: the documents findActiveTeamsCreatedBeforeTimeAsync(endTime)
\* resolves with are the documents of the collection that have no
\* archivalTime and a creationTime earlier than endTime
FindReturnsActiveCreatedBefore ==
    fnd.pc = "resolved" =>
        fnd.documents = {d \in fnd.coll :
                            d.archivalTime = NoTime /\ d.creationTime < fnd.endTime}

\* C35: the step in which deleteGroupAsync fails with another status than
\* 404 leaves the store as it was and rejects the teardown; a callback that
\* failed has rejected it; and the callbacks of the other groups go on: one
\* whose group is deleted or absent can delete its record, also after the
\* rejection, and one that has returned has deleted it
TeardownFailureKeepsRecord ==
    /\ [][\A g \in DOMAIN del.items \cap DOMAIN del'.items :
            (del.items[g] = "deleteGroup" /\ del'.items[g] = "failed") =>
                /\ teams' = teams
                /\ \E d \in teams' : d.groupId = g
                /\ del'.pc = "rejected"]_vars
    /\ [](\A g \in DOMAIN del.items :
            /\ del.items[g] = "failed" => del.pc = "rejected"
            /\ del.items[g] = "deleteRecord" =>
                    ~ GroupExists(g) /\ ENABLED DelRecord(g)
            /\ del.items[g] = "done" => \A d \in teams : d.groupId # g)

\* C35, its case: the teardown has rejected and all its callbacks are over;
\* the group whose deletion failed is still there with its record, and the
\* record of the other group is deleted
TeardownRejectedOneRecordLeft ==
    \E g, h \in DOMAIN del.items :
        /\ del.pc = "rejected" /\ ~ DelInFlight
        /\ del.items[g] = "failed" /\ GroupExists(g)
        /\ \E d \in teams : d.groupId = g
        /\ del.items[h] = "done" /\ ~ GroupExists(h)
        /\ \A d \in teams : d.groupId # h

\* C36: the step in which an update callback saves its record changes the
\* store in one place: the record of the group, which has no archivalTime,
\* gets the trip the callback read as tripSnapshot and keeps its other
\* fields
SyncChangesOnlySnapshot ==
    [][\A r \in Runs : \A g \in DOMAIN upd[r] \cap DOMAIN upd'[r] :
            (upd[r][g].pc = "save" /\ upd'[r][g].pc = "done") =>
                \E d \in teams :
                    /\ d.groupId = g
                    /\ d.archivalTime = NoTime
                    /\ teams' = (teams \ {d}) \cup
                                 {[d EXCEPT !.tripSnapshot = upd[r][g].trip]}]_vars

\* C36, its case: a trip was rescheduled after its team was created, and an
\* update has saved the new trip as the snapshot of the record
RescheduledTripSaved ==
    \E g \in DOMAIN upd[1] : \E d \in teams :
        /\ upd[1][g].pc = "done"
        /\ d.groupId = g
        /\ d.archivalTime = NoTime
        /\ d.tripSnapshot.departureTime < d.creationTime
        /\ d.tripSnapshot \in {[x EXCEPT !.crewMembers = normalizeUpnCasing(@)] : x \in trips}

\* C37: in every call the groups of the archive callbacks and the groups of
\* the update callbacks are disjoint, and for every trigger time no record
\* of the store passes both the archive filter and the update filter
ArchiveAndUpdateDisjoint ==
    /\ \A r \in Runs : DOMAIN arch[r] \cap DOMAIN upd[r] = {}
    /\ \A t \in TriggerTimes : teamsToArchive(teams, t) \cap teamsToUpdate(teams, t) = {}

\* C37, its case: the archive of a group has failed, its record is still
\* active, and the update phase of the same call runs on another group only
UpdateSkipsFailedArchive ==
    \E g \in DOMAIN arch[1] :
        /\ arch[1][g].pc = "failed"
        /\ \E d \in teams : d.groupId = g /\ d.archivalTime = NoTime
        /\ run[1].pc = "update"
        /\ DOMAIN upd[1] # {}

\* C38: in app context, whenever a token is stored, the stored accessToken
\* and the stored expirationTime are those of one token response, the last
\* one that was handled
TokenFieldsFromOneResponse ==
    (appContext /\ tok.accessToken # 0) =>
        /\ tok.accessToken = tok.token.id
        /\ tok.expirationTime =
                tok.token.at + (tok.token.expires_in - expirationTimeBufferInSeconds)

\* C38, its case: two operations found no token, both requested one, and
\* both responses have been handled at the same clock time
TwoRefreshesAtOnce ==
    /\ appContext
    /\ tok.now = 0
    /\ tok.issued = 2
    /\ tok.accessToken = 2
    /\ \A o \in DOMAIN tok.op : tok.op[o] = "request"

====
